---- MODULE Spec2Model ----
(***************************************************************************)
(* money-saarthi: the financial analytics and decision-support engine      *)
(* (src/src/services/analytics.ts, src/src/services/insights.ts).          *)
(*                                                                         *)
(* JavaScript numbers are modelled as exact rationals [n, d] in lowest     *)
(* terms with d > 0; the IEEE-754 specials the code can produce by a       *)
(* division are the records with d = 0: [1,0] = +Infinity,                 *)
(* [-1,0] = -Infinity, [0,0] = NaN.  Dates are month numbers               *)
(* ym = year * 12 + monthOfYear, the only part of a date the engine reads. *)
(***************************************************************************)
EXTENDS Integers, Sequences, FiniteSets, TLC

\* ------------------------------------------------------------------------
\* Numbers
\* ------------------------------------------------------------------------

Abs(i) == IF i < 0 THEN -i ELSE i

Sgn(i) == IF i < 0 THEN -1 ELSE IF i > 0 THEN 1 ELSE 0

RECURSIVE GCD(_, _)
GCD(a, b) == IF b = 0 THEN a ELSE GCD(b, a % b)

\* the value of the one element of a singleton set; The({e : x \in {v}}) is
\* e with x bound to the value v, which is then computed once
The(S) == CHOOSE v \in S : TRUE

\* the number n / d (a JavaScript number) for d >= 0, in lowest terms; d = 0
\* gives Infinity, -Infinity or NaN
Norm(n, d) ==
  IF d = 0 THEN [n |-> Sgn(n), d |-> 0]
  ELSE The({[n |-> n \div g, d |-> d \div g] : g \in {GCD(Abs(n), d)}})

R(i) == [n |-> i, d |-> 1]

NaN == [n |-> 0, d |-> 0]

IsNaN(x) == x.d = 0 /\ x.n = 0
IsFinite(x) == x.d # 0

RNeg(a) == [n |-> -a.n, d |-> a.d]

\* a + b
RAdd(a, b) ==
  IF IsNaN(a) \/ IsNaN(b) THEN NaN
  ELSE IF a.d = 0 /\ b.d = 0 THEN (IF a.n = b.n THEN a ELSE NaN)
  ELSE Norm(IF a.d = b.d THEN a.n + b.n ELSE a.n * b.d + b.n * a.d,
            IF a.d = b.d THEN a.d ELSE a.d * b.d)

RSub(a, b) == RAdd(a, RNeg(b))

\* a * b, cross-reduced (a and b are in lowest terms, so the product is too),
\* so that intermediate products stay small
RMul(a, b) ==
  IF a.d = 0 \/ b.d = 0 THEN [n |-> Sgn(a.n) * Sgn(b.n), d |-> 0]
  ELSE The({[n |-> x.n * y.n, d |-> x.d * y.d] :
              x \in {Norm(a.n, b.d)}, y \in {Norm(b.n, a.d)}})

\* 1 / a, with 1 / 0 = Infinity and 1 / Infinity = 0
RInv(a) ==
  IF a.d = 0 THEN (IF a.n = 0 THEN NaN ELSE R(0))
  ELSE [n |-> Sgn(a.n) * a.d + (IF a.n = 0 THEN 1 ELSE 0), d |-> Abs(a.n)]

\* a / b as JavaScript evaluates it: x / 0 is Infinity or -Infinity, 0 / 0 is NaN
RDiv(a, b) == RMul(a, RInv(b))

\* a < b; every comparison with NaN is false
RLt(a, b) ==
  IF IsNaN(a) \/ IsNaN(b) THEN FALSE
  ELSE IF a.d = 0 /\ b.d = 0 THEN a.n < b.n
  ELSE IF a.d = 0 THEN a.n < 0
  ELSE IF b.d = 0 THEN b.n > 0
  ELSE a.n * b.d < b.n * a.d

RGt(a, b) == RLt(b, a)
RLe(a, b) == ~IsNaN(a) /\ ~IsNaN(b) /\ ~RLt(b, a)
RGe(a, b) == RLe(b, a)

\* Math.max / Math.min (NaN if either argument is NaN)
RMax(a, b) == IF IsNaN(a) \/ IsNaN(b) THEN NaN ELSE IF RLt(a, b) THEN b ELSE a
RMin(a, b) == IF IsNaN(a) \/ IsNaN(b) THEN NaN ELSE IF RLt(b, a) THEN b ELSE a

\* Math.round: the nearest integer, halves up; NaN and the infinities are kept
RRound(a) ==
  IF a.d = 0 THEN a
  ELSE R((a.n \div a.d) + (IF 2 * (a.n % a.d) >= a.d THEN 1 ELSE 0))

\* Math.ceil
RCeil(a) == IF a.d = 0 THEN a ELSE R(-((-a.n) \div a.d))

\* x || y on numbers: x unless x is 0 or NaN
ROr(x, y) == IF IsNaN(x) \/ (IsFinite(x) /\ x.n = 0) THEN y ELSE x

\* ------------------------------------------------------------------------
\* Record model and dates (analytics.ts 79-88)
\* ------------------------------------------------------------------------

\* Income  = [amount, date]            date = year * 12 + monthOfYear
\* Expense = [amount, category, date]

MonthsPerYear == 12

\* new Date(date).getMonth() / getFullYear()
MonthOf(date) == date % MonthsPerYear
YearOf(date) == date \div MonthsPerYear

\* a key made of the month of the year alone
getMonthKey_monthOnly(date) == <<MonthOf(date)>>

\* `${d.getFullYear()}-${d.getMonth()}`
getMonthKey(date) == <<YearOf(date), MonthOf(date)>>

\* MONTH_NAMES[new Date(date).getMonth()]: a label is modelled by its index 0..11
getMonthLabel(date) == MonthOf(date)

\* xs.reduce((s, x) => s + x.amount, 0)
RECURSIVE SumAmount(_)
SumAmount(xs) == IF xs = << >> THEN 0 ELSE Head(xs).amount + SumAmount(Tail(xs))

\* xs.reduce((s, x) => s + x, 0) over numbers
RECURSIVE RSum(_)
RSum(xs) == IF xs = << >> THEN R(0) ELSE RAdd(Head(xs), RSum(Tail(xs)))

\* ------------------------------------------------------------------------
\* Monthly aggregation (analytics.ts 92-130)
\* ------------------------------------------------------------------------

\* the trailing window holds the current month and the 11 months before it
WindowMonths == 12

\* agg.income > 0 ? (agg.savings / agg.income) * 100 : 0
AggSavingsRate_unguarded(income, savings) == RMul(RDiv(R(savings), R(income)), R(100))
AggSavingsRate(income, savings) ==
  IF income > 0 THEN RMul(RDiv(R(savings), R(income)), R(100)) ELSE R(0)

\* agg.savings = agg.income - agg.expenses
AggSavings_incomeOnly(income, expenses) == income
AggSavings(income, expenses) == income - expenses

\* the aggregate of the month d: the entries whose key is the key of d
MonthAggregate(incomes, expenses, d) ==
  LET income == SumAmount(SelectSeq(incomes, LAMBDA i : getMonthKey(i.date) = getMonthKey(d)))
      exp == SumAmount(SelectSeq(expenses, LAMBDA e : getMonthKey(e.date) = getMonthKey(d)))
      savings == AggSavings(income, exp)
  IN  [month |-> MonthOf(d), monthIndex |-> MonthOf(d), year |-> YearOf(d),
       income |-> income, expenses |-> exp, savings |-> savings,
       savingsRate |-> AggSavingsRate(income, savings)]

\* one aggregate for each of the months now - 11 .. now, oldest first
getMonthlyAggregates(incomes, expenses, now) ==
  [k \in 1..WindowMonths |-> MonthAggregate(incomes, expenses, now - (WindowMonths - k))]

\* ------------------------------------------------------------------------
\* Current month stats (analytics.ts 134-153)
\* ------------------------------------------------------------------------

InMonth(date, now) == MonthOf(date) = MonthOf(now) /\ YearOf(date) = YearOf(now)

getCurrentMonthStats(incomes, expenses, now) ==
  LET monthIncome == SumAmount(SelectSeq(incomes, LAMBDA i : InMonth(i.date, now)))
      monthExpenses == SumAmount(SelectSeq(expenses, LAMBDA e : InMonth(e.date, now)))
  IN  [income |-> monthIncome, expenses |-> monthExpenses,
       savings |-> monthIncome - monthExpenses,
       savingsRate |-> IF monthIncome > 0
                       THEN RMul(RDiv(R(monthIncome - monthExpenses), R(monthIncome)), R(100))
                       ELSE R(0)]

\* ------------------------------------------------------------------------
\* Category analysis (analytics.ts 157-187)
\* ------------------------------------------------------------------------

\* the categories in the order of their first expense (the Map's insertion order)
RECURSIVE CategoryOrder(_, _)
CategoryOrder(expenses, seen) ==
  IF expenses = << >> THEN << >>
  ELSE IF Head(expenses).category \in seen THEN CategoryOrder(Tail(expenses), seen)
  ELSE <<Head(expenses).category>>
         \o CategoryOrder(Tail(expenses), seen \cup {Head(expenses).category})

\* cat.monthlyBreakdown[label] || 0
MonthlyBreakdown(expenses, category) ==
  [ml \in 0..(MonthsPerYear - 1) |->
     SumAmount(SelectSeq(expenses,
        LAMBDA e : e.category = category /\ getMonthLabel(e.date) = ml))]

\* the share as a fraction, not a percentage
CatPercentage_fraction(total, totalAll) ==
  IF totalAll > 0 THEN RDiv(R(total), R(totalAll)) ELSE R(0)

\* cat.percentage = totalAll > 0 ? (cat.total / totalAll) * 100 : 0
CatPercentage(total, totalAll) ==
  IF totalAll > 0 THEN RMul(RDiv(R(total), R(totalAll)), R(100)) ELSE R(0)

\* cat.growth = lastVal > 0 ? ((thisVal - lastVal) / lastVal) * 100 : 0
CatGrowth(thisVal, lastVal) ==
  IF lastVal > 0 THEN RMul(RDiv(R(thisVal - lastVal), R(lastVal)), R(100)) ELSE R(0)

CategorySummaryOf(expenses, category, totalAll, now) ==
  LET breakdown == MonthlyBreakdown(expenses, category)
      thisMonth == MonthOf(now)
      lastMonth == IF thisMonth = 0 THEN 11 ELSE thisMonth - 1
  IN  [category |-> category,
       total |-> SumAmount(SelectSeq(expenses, LAMBDA e : e.category = category)),
       percentage |-> CatPercentage(
          SumAmount(SelectSeq(expenses, LAMBDA e : e.category = category)), totalAll),
       monthlyBreakdown |-> breakdown,
       growth |-> CatGrowth(breakdown[thisMonth], breakdown[lastMonth])]

\* Array.prototype.sort((a, b) => b.total - a.total): stable, descending by total
RECURSIVE InsertByTotal(_, _)
InsertByTotal(c, sorted) ==
  IF sorted = << >> THEN <<c>>
  ELSE IF c.total > Head(sorted).total THEN <<c>> \o sorted
  ELSE <<Head(sorted)>> \o InsertByTotal(c, Tail(sorted))

RECURSIVE SortByTotal(_)
SortByTotal(cats) ==
  IF cats = << >> THEN << >>
  ELSE InsertByTotal(cats[Len(cats)], SortByTotal(SubSeq(cats, 1, Len(cats) - 1)))

getCategorySummaries(expenses, now) ==
  LET totalAll == SumAmount(expenses)
      order == CategoryOrder(expenses, {})
  IN  SortByTotal([k \in 1..Len(order) |->
                     CategorySummaryOf(expenses, order[k], totalAll, now)])

\* ------------------------------------------------------------------------
\* Yearly summary (analytics.ts 191-223)
\* ------------------------------------------------------------------------

\* a month with nonzero income or nonzero expenses
IsActive(m) == m.income > 0 \/ m.expenses > 0

\* activeMonths.forEach(m => { if (m.savingsRate > bestMonth.savingsRate) bestMonth = m })
RECURSIVE ScanBest(_, _)
ScanBest(months, best) ==
  IF months = << >> THEN best
  ELSE ScanBest(Tail(months),
                IF RGt(Head(months).savingsRate, best.savingsRate) THEN Head(months) ELSE best)

\* activeMonths.forEach(m => { if (m.expenses > worstMonth.expenses) worstMonth = m })
RECURSIVE ScanWorst(_, _)
ScanWorst(months, worst) ==
  IF months = << >> THEN worst
  ELSE ScanWorst(Tail(months),
                 IF Head(months).expenses > worst.expenses THEN Head(months) ELSE worst)

\* let bestMonth = monthly[0]; then the scan of the active months
YearlyBestMonth(monthly) == ScanBest(SelectSeq(monthly, IsActive), monthly[1])

\* let worstMonth = monthly[0]; then the scan of the active months
YearlyWorstMonth(monthly) == ScanWorst(SelectSeq(monthly, IsActive), monthly[1])

\* activeMonths.length > 0 ? total / activeMonths.length : 0
YearlyAverage(total, nActive) == IF nActive > 0 THEN RDiv(R(total), R(nActive)) ELSE R(0)

getYearlySummary(incomes, expenses, now) ==
  The({
    [totalIncome |-> SumAmount(incomes),
     totalExpenses |-> SumAmount(expenses),
     totalSavings |-> SumAmount(incomes) - SumAmount(expenses),
     savingsRate |-> IF SumAmount(incomes) > 0
                     THEN RMul(RDiv(R(SumAmount(incomes) - SumAmount(expenses)),
                                    R(SumAmount(incomes))), R(100))
                     ELSE R(0),
     highestSpendingCategory |->
        IF categories = << >> THEN "N/A" ELSE categories[1].category,
     highestSpendingAmount |-> IF categories = << >> THEN 0 ELSE categories[1].total,
     bestMonth |-> YearlyBestMonth(monthly).month,
     worstMonth |-> YearlyWorstMonth(monthly).month,
     averageMonthlyExpense |->
        YearlyAverage(SumAmount(expenses), Len(SelectSeq(monthly, IsActive))),
     averageMonthlyIncome |->
        YearlyAverage(SumAmount(incomes), Len(SelectSeq(monthly, IsActive))),
     monthsTracked |-> Len(SelectSeq(monthly, IsActive))]
    : categories \in {getCategorySummaries(expenses, now)},
      monthly \in {getMonthlyAggregates(incomes, expenses, now)} })

\* ------------------------------------------------------------------------
\* Financial health score (analytics.ts 227-274)
\* ------------------------------------------------------------------------

\* Math.sqrt is computed to 1 / SqrtScale (rounded down); exact on perfect squares
SqrtScale == 100

\* the largest r in lo..hi with r * r <= n
RECURSIVE ISqrtIn(_, _, _)
ISqrtIn(n, lo, hi) ==
  IF lo >= hi THEN lo
  ELSE LET mid == (lo + hi + 1) \div 2
       IN  IF mid * mid <= n THEN ISqrtIn(n, mid, hi) ELSE ISqrtIn(n, lo, mid - 1)

ISqrt(n) == ISqrtIn(n, 0, IF n < 46340 THEN n ELSE 46340)

\* Math.sqrt(x); NaN for a negative or NaN argument
RSqrt(x) ==
  IF IsNaN(x) \/ x.n < 0 THEN NaN
  ELSE IF x.d = 0 THEN x
  ELSE Norm(ISqrt(x.n * x.d * SqrtScale * SqrtScale), x.d * SqrtScale)

\* Math.pow(v - avg, 2)
RSquare(x) == RMul(x, x)

\* values.reduce((s, v) => s + Math.pow(v - avg, 2), 0)
RECURSIVE SumSquares(_, _)
SumSquares(values, avg) ==
  IF values = << >> THEN R(0)
  ELSE RAdd(RSquare(RSub(R(Head(values)), avg)), SumSquares(Tail(values), avg))

\* Factor 1: Math.min(100, Math.max(0, yearly.savingsRate * 3.33))
SavingsScore_unclamped(savingsRate) == RMul(savingsRate, Norm(333, 100))
SavingsScore(savingsRate) == RMin(R(100), RMax(R(0), RMul(savingsRate, Norm(333, 100))))

\* Factor 2: Math.max(0, 100 - (categories[0]?.percentage || 0))
DiversityScore(categories) ==
  RMax(R(0), RSub(R(100), IF categories = << >> THEN R(0)
                          ELSE ROr(categories[1].percentage, R(0))))

\* Factor 3: 80, or with more than one month of expenses 100 - cv * 100 clamped
ConsistencyScore(expenseMonths) ==
  IF Len(expenseMonths) > 1
  THEN The({
         RMax(R(0), RMin(R(100), RSub(R(100), RMul(
            (IF RGt(avg, R(0))
             THEN RDiv(RSqrt(RDiv(SumSquares(values, avg), R(Len(values)))), avg)
             ELSE R(0)),
            R(100)))))
         : values \in {[k \in 1..Len(expenseMonths) |-> expenseMonths[k].expenses]},
           avg \in {RDiv(R(SumAmount([k \in 1..Len(expenseMonths) |->
                                        [amount |-> expenseMonths[k].expenses]])),
                         R(Len(expenseMonths)))} })
  ELSE R(80)

\* Factor 4: incomeMonths.length >= 3 ? 80 : incomeMonths.length * 25
IncomeStability(incomeMonths) ==
  IF Len(incomeMonths) >= 3 THEN R(80) ELSE R(Len(incomeMonths) * 25)

\* Factor 5: the last two months with expenses, compared by savings rate
TrendScore(expenseMonths) ==
  IF Len(expenseMonths) >= 2
  THEN LET last == expenseMonths[Len(expenseMonths)]
           prev == expenseMonths[Len(expenseMonths) - 1]
       IN  IF RGt(last.savingsRate, prev.savingsRate) THEN R(90)
           ELSE IF RLt(last.savingsRate, prev.savingsRate) THEN R(20)
           ELSE R(50)
  ELSE R(50)

\* score >= 85 ? "A" : score >= 70 ? "B" : score >= 55 ? "C" : score >= 40 ? "D" : "F"
Grade(score) ==
  IF RGe(score, R(85)) THEN "A" ELSE IF RGe(score, R(70)) THEN "B"
  ELSE IF RGe(score, R(55)) THEN "C" ELSE IF RGe(score, R(40)) THEN "D" ELSE "F"

\* factors.reduce((s, f) => s + f.score * f.weight, 0)
RECURSIVE WeightedSum(_)
WeightedSum(factors) ==
  IF factors = << >> THEN R(0)
  ELSE RAdd(RMul(Head(factors).score, Head(factors).weight), WeightedSum(Tail(factors)))

getFinancialHealthScore(incomes, expenses, now) ==
  The({
    The({ [score |-> score, grade |-> Grade(score), factors |-> factors]
          : score \in {RRound(WeightedSum(factors))} })
    : factors \in {
        The({
          << [label |-> "Savings Rate",
              score |-> SavingsScore(getYearlySummary(incomes, expenses, now).savingsRate),
              weight |-> Norm(35, 100)],
             [label |-> "Expense Diversity",
              score |-> DiversityScore(getCategorySummaries(expenses, now)),
              weight |-> Norm(20, 100)],
             [label |-> "Spending Consistency", score |-> ConsistencyScore(activeMonths),
              weight |-> Norm(20, 100)],
             [label |-> "Income Stability", score |-> IncomeStability(incomeMonths),
              weight |-> Norm(15, 100)],
             [label |-> "Financial Trend", score |-> TrendScore(activeMonths),
              weight |-> Norm(10, 100)] >>
          : activeMonths \in {SelectSeq(getMonthlyAggregates(incomes, expenses, now),
                                        LAMBDA m : m.expenses > 0)},
            incomeMonths \in {SelectSeq(getMonthlyAggregates(incomes, expenses, now),
                                        LAMBDA m : m.income > 0)} }) } })

\* ------------------------------------------------------------------------
\* Peak month analysis (analytics.ts 366-401)
\* ------------------------------------------------------------------------

\* active.reduce((a, b) => (a[field] > b[field] ? a : b))
RECURSIVE ReducePeak(_, _, _)
\* a reduce that keeps the earlier of two equal months
RECURSIVE ReducePeak_keepFirst(_, _, _)
ReducePeak_keepFirst(months, a, field) ==
  IF months = << >> THEN a
  ELSE ReducePeak_keepFirst(Tail(months),
                            IF a[field] >= Head(months)[field] THEN a ELSE Head(months),
                            field)

ReducePeak(months, a, field) ==
  IF months = << >> THEN a
  ELSE ReducePeak(Tail(months),
                  IF a[field] > Head(months)[field] THEN a ELSE Head(months), field)

\* avg > 0 ? ((peak - avg) / avg) * 100 : 0
PercentAboveAvg(peak, avg) ==
  IF RGt(avg, R(0)) THEN RMul(RDiv(RSub(R(peak), avg), avg), R(100)) ELSE R(0)

PeakInfo(active, field) ==
  The({ [month |-> peakMonth.month, value |-> peakMonth[field], avg |-> avg,
         percentAboveAvg |-> PercentAboveAvg(peakMonth[field], avg)]
        : avg \in {RDiv(R(SumAmount([k \in 1..Len(active) |->
                                       [amount |-> active[k][field]]])),
                        R(Len(active)))},
          peakMonth \in {ReducePeak(Tail(active), Head(active), field)} })

getPeakAnalysis(incomes, expenses, now) ==
  The({
    IF Len(active) = 0
    THEN [peakIncome |-> [month |-> "N/A", value |-> 0, avg |-> R(0),
                          percentAboveAvg |-> R(0)],
          peakExpense |-> [month |-> "N/A", value |-> 0, avg |-> R(0),
                           percentAboveAvg |-> R(0)],
          peakSavings |-> [month |-> "N/A", value |-> 0, avg |-> R(0),
                           percentAboveAvg |-> R(0)]]
    ELSE [peakIncome |-> PeakInfo(active, "income"),
          peakExpense |-> PeakInfo(active, "expenses"),
          peakSavings |-> PeakInfo(active, "savings")]
    : active \in {SelectSeq(getMonthlyAggregates(incomes, expenses, now), IsActive)} })

\* ------------------------------------------------------------------------
\* Quarter analysis (analytics.ts 405-437)
\* ------------------------------------------------------------------------

\* q.savingsRate = q.income > 0 ? (q.savings / q.income) * 100 : 0
QuarterSavingsRate(income, savings) ==
  IF income > 0 THEN RMul(RDiv(R(savings), R(income)), R(100)) ELSE R(0)

\* the entries of the current year whose month falls in quarter qi (0..3)
InQuarter(date, qi, now) == YearOf(date) = YearOf(now) /\ MonthOf(date) \div 3 = qi

getQuarterData(incomes, expenses, now) ==
  [q \in 1..4 |->
     LET income == SumAmount(SelectSeq(incomes, LAMBDA i : InQuarter(i.date, q - 1, now)))
         exp == SumAmount(SelectSeq(expenses, LAMBDA e : InQuarter(e.date, q - 1, now)))
     IN  [quarter |-> q, income |-> income, expenses |-> exp, savings |-> income - exp,
          savingsRate |-> QuarterSavingsRate(income, income - exp)]]

\* ------------------------------------------------------------------------
\* Predictions (analytics.ts 278-337)
\* ------------------------------------------------------------------------

\* active.reduce((s, m, i) => s + m[field] * weights[i], 0), weights[i] = i + 1
RECURSIVE WeightedTotal(_, _, _)
WeightedTotal(active, field, k) ==
  IF k = 0 THEN 0 ELSE active[k][field] * k + WeightedTotal(active, field, k - 1)

\* (last3[last][field] - last3[0][field]) / Math.max(last3[0][field], 1) / last3.length
GrowthRate(last3, field) ==
  IF Len(last3) >= 2
  THEN RDiv(RDiv(R(last3[Len(last3)][field] - last3[1][field]),
                 RMax(R(last3[1][field]), R(1))),
            R(Len(last3)))
  ELSE R(0)

\* Math.round(avg * (1 + growth * i))
Projected(avg, growth, i) == RRound(RMul(avg, RAdd(R(1), RMul(growth, R(i))))).n

\* active.slice(-3)
Last3_four(active) ==
  SubSeq(active, IF Len(active) > 4 THEN Len(active) - 3 ELSE 1, Len(active))
Last3(active) ==
  SubSeq(active, IF Len(active) > 3 THEN Len(active) - 2 ELSE 1, Len(active))

getPredictions(incomes, expenses, now) ==
  The({
    IF Len(active) < 2
    THEN [nextMonthIncome |-> 0, nextMonthExpense |-> 0, nextMonthSavingsRate |-> R(0),
          threeMonthProjection |-> << >>, trend |-> "stable"]
    ELSE The({
           The({
             [nextMonthIncome |-> projection[1].income,
              nextMonthExpense |-> projection[1].expenses,
              nextMonthSavingsRate |->
                 IF projection[1].income > 0
                 THEN RMul(RDiv(R(projection[1].income - projection[1].expenses),
                                R(projection[1].income)), R(100))
                 ELSE R(0),
              threeMonthProjection |-> projection,
              trend |-> IF RGt(savingsTrend, R(3)) THEN "improving"
                        ELSE IF RLt(savingsTrend, R(-3)) THEN "declining" ELSE "stable"]
             : projection \in {
                 [i \in 1..3 |->
                    The({ [month |-> MonthOf(now + i), income |-> income,
                           expenses |-> exp, savings |-> income - exp]
                          : income \in {Projected(avgIncome, GrowthRate(last3, "income"), i)},
                            exp \in {Projected(avgExpense, GrowthRate(last3, "expenses"), i)}
                        })]},
               savingsTrend \in {
                 IF Len(last3) >= 2
                 THEN RSub(last3[Len(last3)].savingsRate, last3[1].savingsRate)
                 ELSE R(0)} })
           : avgIncome \in {RDiv(R(WeightedTotal(active, "income", Len(active))),
                                 R((Len(active) * (Len(active) + 1)) \div 2))},
             avgExpense \in {RDiv(R(WeightedTotal(active, "expenses", Len(active))),
                                  R((Len(active) * (Len(active) + 1)) \div 2))},
             last3 \in {Last3(active)} })
    : active \in {SelectSeq(getMonthlyAggregates(incomes, expenses, now), IsActive)} })

\* ------------------------------------------------------------------------
\* The insight rule engine (insights.ts 21-341)
\*
\* An insight is [type, rule]: its severity and the template that produced it
\* (the message text is the template's, with the numbers it formats).
\* ------------------------------------------------------------------------

Ins(type, rule) == [type |-> type, rule |-> rule]

\* if (cond) insights.push(...items)
When(cond, items) == IF cond THEN items ELSE << >>

\* SAVINGS PERFORMANCE (42-78)
SavingsRules(savingsRate, balance, yearly) ==
  When(RLt(savingsRate, R(0)),
       <<Ins("danger", "overspending"), Ins("danger", "negative-savings")>>)
  \o When(RGe(savingsRate, R(0)) /\ RLt(savingsRate, R(5)),
          <<Ins("danger", "savings-critical"), Ins("warning", "no-buffer")>>)
  \o When(RGe(savingsRate, R(5)) /\ RLt(savingsRate, R(10)), <<Ins("warning", "savings-low")>>)
  \o When(RGe(savingsRate, R(10)) /\ RLt(savingsRate, R(20)),
          <<Ins("warning", "savings-fair"), Ins("info", "automate")>>)
  \o When(RGe(savingsRate, R(20)) /\ RLt(savingsRate, R(35)),
          <<Ins("success", "savings-good"), Ins("success", "diversify-sip")>>)
  \o When(RGe(savingsRate, R(35)) /\ RLt(savingsRate, R(50)),
          <<Ins("success", "savings-great"), Ins("info", "tax-saving")>>)
  \o When(RGe(savingsRate, R(50)),
          <<Ins("success", "savings-fire"), Ins("info", "invest-aggressively")>>)
  \o When(balance > 0, <<Ins("success", "net-savings")>>)
  \o When(yearly.totalSavings >= 100000, <<Ins("success", "milestone-1-lakh")>>)
  \o When(yearly.totalSavings >= 50000 /\ yearly.totalSavings < 100000,
          <<Ins("success", "milestone-half-lakh")>>)
  \o When(yearly.totalSavings >= 10000 /\ yearly.totalSavings < 50000,
          <<Ins("info", "milestone-10k")>>)

\* OVERSPENDING WARNINGS (82-102)
RECURSIVE OverspendingPerCategory(_)
OverspendingPerCategory(categories) ==
  IF categories = << >> THEN << >>
  ELSE LET cat == Head(categories)
       IN  When(RGt(cat.percentage, R(50)), <<Ins("danger", "category-dominant")>>)
           \o When(RGt(cat.percentage, R(30)) /\ RLe(cat.percentage, R(50)),
                   <<Ins("warning", "category-high")>>)
           \o When(RGt(cat.percentage, R(20)) /\ RLe(cat.percentage, R(30)),
                   <<Ins("info", "category-watch")>>)
           \o OverspendingPerCategory(Tail(categories))

OverspendingRules(categories, totalIncome, totalExpenses) ==
  OverspendingPerCategory(categories)
  \o When(Len(categories) > 0, <<Ins("info", "top-category")>>)
  \o When(Len(categories) >= 2, <<Ins("info", "top-two-categories")>>)
  \o When(RGt(R(totalExpenses), RMul(R(totalIncome), Norm(9, 10))),
          <<Ins("danger", "spending-over-90")>>)

\* CATEGORY SPIKES (106-114)
RECURSIVE CategorySpikeRules(_)
CategorySpikeRules(categories) ==
  IF categories = << >> THEN << >>
  ELSE LET cat == Head(categories)
       IN  (IF RGt(cat.growth, R(50)) THEN <<Ins("danger", "category-spike")>>
            ELSE IF RGt(cat.growth, R(20)) THEN <<Ins("warning", "category-rise")>>
            ELSE IF RLt(cat.growth, R(-20)) THEN <<Ins("success", "category-drop")>>
            ELSE << >>)
           \o CategorySpikeRules(Tail(categories))

\* MONTH-OVER-MONTH (118-143): inc and dec divide by prev.expenses
MomIncrease(last, prev) ==
  RMul(RDiv(R(last.expenses - prev.expenses), R(prev.expenses)), R(100))

MomDecrease(last, prev) ==
  RMul(RDiv(R(prev.expenses - last.expenses), R(prev.expenses)), R(100))

MonthOverMonthQuotients(active) ==
  IF Len(active) >= 2
  THEN LET last == active[Len(active)]
           prev == active[Len(active) - 1]
       IN  IF last.expenses > prev.expenses THEN <<MomIncrease(last, prev)>>
           ELSE IF last.expenses < prev.expenses THEN <<MomDecrease(last, prev)>>
           ELSE << >>
  ELSE << >>

MonthOverMonthRules(active) ==
  IF Len(active) >= 2
  THEN LET last == active[Len(active)]
           prev == active[Len(active) - 1]
       IN  (IF last.expenses > prev.expenses
            THEN <<Ins("warning", "expenses-increased")>>
                 \o When(RGt(MomIncrease(last, prev), R(30)),
                         <<Ins("danger", "expense-jump")>>)
            ELSE IF last.expenses < prev.expenses
            THEN <<Ins("success", "spending-dropped")>>
            ELSE << >>)
           \o (IF last.income > prev.income THEN <<Ins("success", "income-grew")>>
               ELSE IF last.income < prev.income /\ last.income > 0
               THEN <<Ins("warning", "income-decreased")>>
               ELSE << >>)
           \o When(RGt(last.savingsRate, RAdd(prev.savingsRate, R(5))),
                   <<Ins("success", "savings-rate-improved")>>)
           \o When(RLt(last.savingsRate, RSub(prev.savingsRate, R(5))),
                   <<Ins("warning", "savings-rate-dropped")>>)
  ELSE << >>

\* BEST/WORST MONTH (147-163)
\* lowestExpense = active.reduce((a, b) => a.expenses < b.expenses && a.expenses > 0 ? a : b)
RECURSIVE ReduceLowestExpense(_, _)
ReduceLowestExpense(months, a) ==
  IF months = << >> THEN a
  ELSE ReduceLowestExpense(Tail(months),
          IF a.expenses < Head(months).expenses /\ a.expenses > 0 THEN a ELSE Head(months))

\* active.reduce((s, m) => s + m.expenses, 0) / active.length
AverageExpense(active) ==
  RDiv(R(SumAmount([k \in 1..Len(active) |-> [amount |-> active[k].expenses]])),
       R(Len(active)))

BestWorstRules(active) ==
  IF Len(active) >= 3
  THEN LET lowestExpense == ReduceLowestExpense(Tail(active), Head(active))
           avgExpense == AverageExpense(active)
           aboveAvg == SelectSeq(active,
                         LAMBDA m : RGt(R(m.expenses), RMul(avgExpense, Norm(12, 10))))
       IN  <<Ins("success", "best-month"), Ins("warning", "worst-month")>>
           \o When(lowestExpense.expenses > 0, <<Ins("success", "lowest-expense")>>)
           \o When(Len(aboveAvg) > 0, <<Ins("info", "above-average-months")>>)
  ELSE << >>

\* SPENDING CONSISTENCY (167-181)
\* expValues = active.map(m => m.expenses).filter(v => v > 0)
ExpValues(active) ==
  LET months == SelectSeq(active, LAMBDA m : m.expenses > 0)
  IN  [k \in 1..Len(months) |-> months[k].expenses]

\* expValues.reduce((s, v) => s + v, 0) / expValues.length
ConsistencyAvg(expValues) ==
  RDiv(R(SumAmount([k \in 1..Len(expValues) |-> [amount |-> expValues[k]]])),
       R(Len(expValues)))

\* expValues.reduce((s, v) => s + Math.pow(v - avg, 2), 0) / expValues.length
ConsistencyVariance(expValues) ==
  RDiv(SumSquares(expValues, ConsistencyAvg(expValues)), R(Len(expValues)))

\* cv = avg > 0 ? Math.sqrt(variance) / avg : 0
ConsistencyCv(expValues) ==
  IF RGt(ConsistencyAvg(expValues), R(0))
  THEN RDiv(RSqrt(ConsistencyVariance(expValues)), ConsistencyAvg(expValues))
  ELSE R(0)

ConsistencyQuotients(active) ==
  IF Len(active) >= 3
  THEN <<ConsistencyAvg(ExpValues(active)), ConsistencyVariance(ExpValues(active))>>
  ELSE << >>

ConsistencyRules(active) ==
  IF Len(active) >= 3
  THEN LET cv == ConsistencyCv(ExpValues(active))
       IN  IF RLt(cv, Norm(15, 100)) THEN <<Ins("success", "very-consistent")>>
           ELSE IF RLt(cv, Norm(3, 10)) THEN <<Ins("info", "moderate-variation")>>
           ELSE <<Ins("warning", "high-variance"), Ins("info", "fixed-budget")>>
  ELSE << >>

\* RISK ALERTS (185-208)
RiskRules(incomes, expenses, yearly, categories, active, balance) ==
  When(RGt(yearly.averageMonthlyExpense, RMul(yearly.averageMonthlyIncome, Norm(95, 100))),
       <<Ins("danger", "no-margin")>>)
  \o When(Len(categories) = 1, <<Ins("warning", "single-category")>>)
  \o When(Len(incomes) < 3 /\ Len(expenses) > 10, <<Ins("warning", "few-income-entries")>>)
  \o When(yearly.monthsTracked < 3, <<Ins("info", "track-three-months")>>)
  \o When(Len(SelectSeq(active, LAMBDA m : m.income = 0 /\ m.expenses > 0)) > 0,
          <<Ins("warning", "months-without-income")>>)
  \o When(balance > 0 /\ RLt(R(balance), RMul(yearly.averageMonthlyExpense, R(3))),
          <<Ins("warning", "emergency-fund-low")>>)
  \o When(RGe(R(balance), RMul(yearly.averageMonthlyExpense, R(6)))
            /\ RGt(yearly.averageMonthlyExpense, R(0)),
          <<Ins("success", "emergency-fund-solid")>>)

\* POSITIVE REINFORCEMENT (212-229)
PositiveRules(health, currentMonth, savingsRate, active) ==
  LET consecutiveSaving == Len(SelectSeq(active, LAMBDA m : m.savings > 0))
  IN  (IF RGe(health.score, R(80)) THEN <<Ins("success", "health-score")>>
       ELSE IF RGe(health.score, R(60)) THEN <<Ins("info", "health-score")>>
       ELSE <<Ins("warning", "health-score")>>)
      \o When(RGt(currentMonth.savingsRate, savingsRate),
              <<Ins("success", "month-beats-average")>>)
      \o (IF consecutiveSaving >= 6 THEN <<Ins("success", "saving-streak-6")>>
          ELSE IF consecutiveSaving >= 3 THEN <<Ins("success", "saving-streak-3")>>
          ELSE << >>)

\* INVESTMENT SUGGESTIONS (233-242)
InvestmentRules(savingsRate, balance) ==
  When(RGe(savingsRate, R(20)) /\ balance >= 10000,
       <<Ins("info", "start-sip"), Ins("info", "ppf-elss")>>)
  \o When(RGe(savingsRate, R(30)), <<Ins("info", "fixed-deposits")>>)
  \o When(balance >= 50000, <<Ins("info", "diversify-portfolio")>>)

\* PREDICTIONS (246-256)
PredictionRules(predictions) ==
  When(predictions.nextMonthIncome > 0,
       <<Ins("info", "predicted-next-month")>>
       \o When(RGt(predictions.nextMonthSavingsRate, R(0)),
               <<Ins("info", "projected-savings-rate")>>))
  \o (IF predictions.trend = "improving" THEN <<Ins("success", "trend-improving")>>
      ELSE IF predictions.trend = "declining" THEN <<Ins("warning", "trend-declining")>>
      ELSE << >>)

\* EXPENSE PATTERNS (260-280): categories.find(c => c.category === name)
CategoryOver(categories, name, limit) ==
  \E k \in 1..Len(categories) :
     categories[k].category = name /\ RGt(categories[k].percentage, R(limit))

PatternRules(categories) ==
  When(CategoryOver(categories, "Food", 35), <<Ins("warning", "food-high")>>)
  \o When(CategoryOver(categories, "Transport", 15), <<Ins("info", "transport-costs")>>)
  \o When(CategoryOver(categories, "Entertainment", 15), <<Ins("info", "entertainment")>>)
  \o When(CategoryOver(categories, "Bills", 40), <<Ins("warning", "bills-high")>>)
  \o When(CategoryOver(categories, "Shopping", 20), <<Ins("warning", "shopping-high")>>)

\* ANOMALY DETECTION (284-298)
AnomalyRules(active, yearly, categories) ==
  IF Len(active) >= 3
  THEN LET avgExp == AverageExpense(active)
           last == active[Len(active)]
       IN  When(RGt(R(last.expenses), RMul(avgExp, Norm(15, 10))),
                <<Ins("danger", "expense-anomaly")>>)
           \o When(last.income > 0
                     /\ RGt(R(last.income), RMul(yearly.averageMonthlyIncome, Norm(15, 10))),
                   <<Ins("success", "income-anomaly")>>)
           \o When(Len(categories) > 4, <<Ins("info", "many-categories")>>)
  ELSE << >>

\* BUDGET BREACH (302-308)
\* if (currentMonth.expenses > currentMonth.income && currentMonth.income > 0)
BudgetBreach_halfIncome(currentMonth) ==
  2 * currentMonth.expenses > currentMonth.income /\ currentMonth.income > 0
BudgetBreach(currentMonth) ==
  currentMonth.expenses > currentMonth.income /\ currentMonth.income > 0

BudgetRules(yearly, currentMonth) ==
  LET monthlyBudget50 ==
        RMul(ROr(yearly.averageMonthlyIncome, R(currentMonth.income)), Norm(5, 10))
  IN  When(RGt(R(currentMonth.expenses), monthlyBudget50) /\ RGt(monthlyBudget50, R(0)),
           <<Ins("warning", "needs-threshold")>>)
      \o When(BudgetBreach(currentMonth), <<Ins("danger", "budget-breach")>>)

\* 50/30/20 rule check (311-320)
NeedsCategories == {"Food", "Bills", "Transport"}

NeedsPct(categories, totalIncome) ==
  LET needsCats == SelectSeq(categories, LAMBDA c : c.category \in NeedsCategories)
      needsTotal == SumAmount([k \in 1..Len(needsCats) |-> [amount |-> needsCats[k].total]])
  IN  RMul(RDiv(R(needsTotal), R(totalIncome)), R(100))

NeedsRules(categories, totalIncome) ==
  IF totalIncome > 0
  THEN IF RGt(NeedsPct(categories, totalIncome), R(50))
       THEN <<Ins("warning", "needs-over-50")>>
       ELSE <<Ins("success", "needs-within-50")>>
  ELSE << >>

\* CATEGORY GROWTH TRENDS (324-332)
GrowthTrendRules(categories) ==
  When(Len(SelectSeq(categories, LAMBDA c : RGt(c.growth, R(10)))) > 0,
       <<Ins("warning", "growing-expenses")>>)
  \o When(Len(SelectSeq(categories, LAMBDA c : RLt(c.growth, R(-10)))) > 0,
          <<Ins("success", "declining-expenses")>>)

\* GENERAL TIPS (336-338)
GeneralTips ==
  <<Ins("info", "tip-track-every-expense"), Ins("info", "tip-review-subscriptions"),
    Ins("info", "tip-automatic-transfers")>>

\* if (totalIncome === 0 && totalExpenses === 0) return [welcome]   (26-28)
NoData_inverted(totalIncome, totalExpenses) == totalIncome # 0 /\ totalExpenses # 0
NoData(totalIncome, totalExpenses) == totalIncome = 0 /\ totalExpenses = 0

\* savingsRate = totalIncome > 0 ? (balance / totalIncome) * 100 : 0   (31)
OverallSavingsRate(balance, totalIncome) ==
  IF totalIncome > 0 THEN RMul(RDiv(R(balance), R(totalIncome)), R(100)) ELSE R(0)

\* the record-based generateInsights: the insights in evaluation order, and
\* `quotients`, the value of every division the function itself evaluates
generateInsights(incomes, expenses, now) ==
  LET totalIncome == SumAmount(incomes)
      totalExpenses == SumAmount(expenses)
      balance == totalIncome - totalExpenses
      savingsRate == OverallSavingsRate(balance, totalIncome)
      yearly == getYearlySummary(incomes, expenses, now)
      monthly == getMonthlyAggregates(incomes, expenses, now)
      categories == getCategorySummaries(expenses, now)
      health == getFinancialHealthScore(incomes, expenses, now)
      currentMonth == getCurrentMonthStats(incomes, expenses, now)
      predictions == getPredictions(incomes, expenses, now)
      active == SelectSeq(monthly, IsActive)
  IN  IF NoData(totalIncome, totalExpenses)
      THEN [insights |-> <<Ins("info", "welcome")>>, quotients |-> << >>]
      ELSE [insights |->
              SavingsRules(savingsRate, balance, yearly)
              \o OverspendingRules(categories, totalIncome, totalExpenses)
              \o CategorySpikeRules(categories)
              \o MonthOverMonthRules(active)
              \o BestWorstRules(active)
              \o ConsistencyRules(active)
              \o RiskRules(incomes, expenses, yearly, categories, active, balance)
              \o PositiveRules(health, currentMonth, savingsRate, active)
              \o InvestmentRules(savingsRate, balance)
              \o PredictionRules(predictions)
              \o PatternRules(categories)
              \o AnomalyRules(active, yearly, categories)
              \o BudgetRules(yearly, currentMonth)
              \o NeedsRules(categories, totalIncome)
              \o GrowthTrendRules(categories)
              \o GeneralTips,
            quotients |->
              <<savingsRate>>
              \o MonthOverMonthQuotients(active)
              \o (IF Len(active) >= 3 THEN <<AverageExpense(active)>> ELSE << >>)
              \o ConsistencyQuotients(active)
              \o (IF totalIncome > 0 THEN <<NeedsPct(categories, totalIncome)>> ELSE << >>)]

\* ------------------------------------------------------------------------
\* Purchase planner (insights.ts 430-772)
\*
\* FinancialProfile = [monthlyIncome, monthlyExpenses, monthlyRoutineBills,
\*                     existingSavings, extraSavingPerMonth]
\* PurchaseDetails  = [actualPrice, mode, downPayment, emiTenureMonths,
\*                     interestRate, monthlySavingForPurchase]
\* An optional field that is absent is modelled as 0: the code reads every one
\* of them through `field || default`, which treats 0 and undefined alike.
\* ------------------------------------------------------------------------

\* Math.pow(1 + r, n) is computed in fixed point, to 1 / PowScale per step
PowScale == 10000

\* r = annualRate / 12 / 100
MonthlyRate(annualRate) == Norm(annualRate, 1200)

\* base^n, base and the result scaled by PowScale
RECURSIVE PowScaled(_, _)
PowScaled(base, n) ==
  IF n <= 0 THEN PowScale
  ELSE (PowScaled(base, n - 1) * base + PowScale \div 2) \div PowScale

\* Math.pow(1 + r, n)
RPow1p(r, n) ==
  Norm(PowScaled(PowScale + (r.n * PowScale + r.d \div 2) \div r.d, n), PowScale)

\* calculateEMI (438-442)
calculateEMI(principal, annualRate, tenureMonths) ==
  IF annualRate = 0 THEN RDiv(R(principal), R(tenureMonths))
  ELSE LET r == MonthlyRate(annualRate)
           pow == RPow1p(r, tenureMonths)
       IN  RDiv(RMul(RMul(R(principal), r), pow), RSub(pow, R(1)))

\* Math.round(x * 10) / 10 and Math.round(x * 100) / 100
Round1(x) == RDiv(RRound(RMul(x, R(10))), R(10))
Round2(x) == RDiv(RRound(RMul(x, R(100))), R(100))

\* isAffordable: emiBurden < 40   (468)
IsAffordable_inclusive(emiBurden) == RLe(emiBurden, R(40))
IsAffordable(emiBurden) == RLt(emiBurden, R(40))

\* analyzeEMI (446-473)
analyzeEMI(profile, details) ==
  The({
    The({
      LET tenure == IF details.emiTenureMonths = 0 THEN 12 ELSE details.emiTenureMonths
          totalWithInterest == RAdd(RMul(emi, R(tenure)), R(details.downPayment))
          newMonthlySavings == RSub(R(disposable), emi)
      IN  [emiAmount |-> RRound(emi),
           totalAmountWithInterest |-> RRound(totalWithInterest),
           totalInterestPaid |-> RRound(RSub(totalWithInterest, R(details.actualPrice))),
           emiBurdenPercent |-> Round1(emiBurden),
           newSavingsRate |->
              Round1(IF profile.monthlyIncome > 0
                     THEN RMul(RDiv(newMonthlySavings, R(profile.monthlyIncome)), R(100))
                     ELSE R(0)),
           isAffordable |-> IsAffordable(emiBurden),
           impactOnYearlySavings |->
              RRound(RMul(RSub(R(disposable), newMonthlySavings), R(12))),
           disposableIncome |-> R(disposable),
           emiToDisposableRatio |->
              Round2(RDiv(emi, RMax(R(disposable), R(1))))]
      : emiBurden \in {IF disposable > 0 THEN RMul(RDiv(emi, R(disposable)), R(100))
                       ELSE R(100)} })
    : emi \in {calculateEMI(details.actualPrice - details.downPayment,
                            details.interestRate,
                            IF details.emiTenureMonths = 0 THEN 12
                            ELSE details.emiTenureMonths)},
      disposable \in {profile.monthlyIncome - profile.monthlyExpenses
                        - profile.monthlyRoutineBills} })

\* monthlySaving = details.monthlySavingForPurchase || profile.extraSavingPerMonth || 1
\* (details.monthlySavingForPurchase is a number record: runSimulation may set it
\* to the rounded EMI)
MonthlySaving(profile, details) ==
  ROr(ROr(details.monthlySavingForPurchase, R(profile.extraSavingPerMonth)), R(1))

\* the savings timeline is built for at most 60 months
TimelineCap == 60

\* analyzeSavings (477-505)
analyzeSavings(profile, details) ==
  LET monthlySaving == MonthlySaving(profile, details)
      target == details.actualPrice
      existing == profile.existingSavings
      remaining == IF target - existing > 0 THEN target - existing ELSE 0
      monthsReq == IF remaining > 0 THEN RCeil(RDiv(R(remaining), monthlySaving)) ELSE R(0)
      last == IF RLt(monthsReq, R(TimelineCap)) THEN monthsReq.n ELSE TimelineCap
      hypotheticalInterest ==
        RMul(RMul(R(target), Norm(12, 100)), RDiv(monthsReq, R(12)))
  IN  [monthsRequired |-> monthsReq,
       yearsRequired |-> Round1(RDiv(monthsReq, R(12))),
       isFeasibleWithinYear |-> RLe(monthsReq, R(12)),
       savingsGrowthTimeline |->
          [k \in 1..(last + 1) |->
             LET accumulated == RAdd(R(existing), RMul(monthlySaving, R(k - 1)))
             IN  [month |-> k - 1,
                  accumulated |-> RMin(accumulated, R(target)),
                  remaining |-> RMax(R(0), RSub(R(target), accumulated))]],
       delayBenefitAmount |-> RRound(hypotheticalInterest)]

\* generateComparison (509-535); after m iterations of the loop cumulEMI is
\* m * emi.emiAmount and cumulSave is m * monthlySaving
generateComparison(emi, savings, details) ==
  LET emiTenure == IF details.emiTenureMonths = 0 THEN 12 ELSE details.emiTenureMonths
      savingsMonths == savings.monthsRequired
      monthlySaving == ROr(details.monthlySavingForPurchase, R(0))
      limit == RMax(RMax(R(emiTenure), savingsMonths), R(60)).n
      Overtakes(m) == RGe(RMul(monthlySaving, R(m)), RMul(emi.emiAmount, R(m)))
      breakEven == IF \E m \in 1..limit : Overtakes(m)
                   THEN CHOOSE m \in 1..limit :
                          Overtakes(m) /\ \A k \in 1..(m - 1) : ~Overtakes(k)
                   ELSE 0
  IN  [totalCostEMI |-> emi.totalAmountWithInterest,
       totalCostSavings |-> R(details.actualPrice),
       timeDifferenceMonths |->
          IF RLt(RSub(savingsMonths, R(emiTenure)), R(0))
          THEN RSub(R(emiTenure), savingsMonths) ELSE RSub(savingsMonths, R(emiTenure)),
       monthlyBurdenEMI |-> emi.emiAmount,
       monthlyBurdenSavings |-> RRound(monthlySaving),
       interestSaved |-> emi.totalInterestPaid,
       breakEvenMonth |-> ROr(R(breakEven), savingsMonths)]

\* the bands of the verdict insight (75 and 50) in place of those of the label
Feasibility_verdictBands(score) ==
  IF RGe(score, R(75)) THEN "safe" ELSE IF RGe(score, R(50)) THEN "moderate" ELSE "risky"

\* calculatePurchaseScore (539-585); an optional analysis is a sequence of
\* length 0 (absent) or 1
Feasibility(score) ==
  IF RGe(score, R(65)) THEN "safe" ELSE IF RGe(score, R(40)) THEN "moderate" ELSE "risky"

calculatePurchaseScore(profile, emiOpt, savingsOpt) ==
  LET disposable == profile.monthlyIncome - profile.monthlyExpenses
                      - profile.monthlyRoutineBills
      affordScore ==
        IF emiOpt # << >>
        THEN LET b == emiOpt[1].emiBurdenPercent
             IN  IF RLt(b, R(20)) THEN 95 ELSE IF RLt(b, R(30)) THEN 75
                 ELSE IF RLt(b, R(40)) THEN 55 ELSE IF RLt(b, R(60)) THEN 30 ELSE 10
        ELSE IF savingsOpt # << >>
        THEN LET m == savingsOpt[1].monthsRequired
             IN  IF RLe(m, R(3)) THEN 95 ELSE IF RLe(m, R(6)) THEN 80
                 ELSE IF RLe(m, R(12)) THEN 60 ELSE IF RLe(m, R(24)) THEN 35 ELSE 15
        ELSE 50
      currentSavingsRate ==
        IF profile.monthlyIncome > 0
        THEN RMul(RDiv(R(disposable), R(profile.monthlyIncome)), R(100)) ELSE R(0)
      newRate == IF emiOpt # << >> THEN emiOpt[1].newSavingsRate ELSE currentSavingsRate
      savingsImpact ==
        IF RGe(newRate, R(20)) THEN 90 ELSE IF RGe(newRate, R(10)) THEN 65
        ELSE IF RGe(newRate, R(0)) THEN 35 ELSE 10
      cushionMonths ==
        IF disposable > 0 THEN RDiv(R(profile.existingSavings), R(disposable)) ELSE R(0)
      cushionScore ==
        IF RGe(cushionMonths, R(6)) THEN 95 ELSE IF RGe(cushionMonths, R(3)) THEN 70
        ELSE IF RGe(cushionMonths, R(1)) THEN 40 ELSE 15
      timeScore ==
        IF savingsOpt # << >>
        THEN LET m == savingsOpt[1].monthsRequired
             IN  IF RLe(m, R(6)) THEN 90 ELSE IF RLe(m, R(12)) THEN 70
                 ELSE IF RLe(m, R(24)) THEN 45 ELSE 20
        ELSE 60
      debtRisk ==
        IF emiOpt # << >>
        THEN (IF emiOpt[1].isAffordable THEN 85
              ELSE IF RLt(emiOpt[1].emiBurdenPercent, R(60)) THEN 40 ELSE 10)
        ELSE 90
      factors ==
        << [label |-> "Affordability", score |-> R(affordScore), weight |-> Norm(30, 100)],
           [label |-> "Savings Impact", score |-> R(savingsImpact), weight |-> Norm(25, 100)],
           [label |-> "Financial Cushion", score |-> R(cushionScore), weight |-> Norm(20, 100)],
           [label |-> "Time Efficiency", score |-> R(timeScore), weight |-> Norm(15, 100)],
           [label |-> "Debt Risk", score |-> R(debtRisk), weight |-> Norm(10, 100)] >>
      score == RRound(WeightedSum(factors))
  IN  [score |-> score, feasibility |-> Feasibility(score), factors |-> factors]

\* the planner's insight templates (589-735)

\* 1. overall verdict (601-607)
VerdictRules(purchaseScore) ==
  IF RGe(purchaseScore.score, R(75)) THEN <<Ins("success", "verdict-comfortable")>>
  ELSE IF RGe(purchaseScore.score, R(50)) THEN <<Ins("warning", "verdict-stretch")>>
  ELSE <<Ins("danger", "verdict-not-recommended")>>

\* 2. priceToIncome = details.actualPrice / Math.max(profile.monthlyIncome, 1)  (598, 610-616)
PriceToIncome(profile, details) ==
  RDiv(R(details.actualPrice), RMax(R(profile.monthlyIncome), R(1)))

PriceRatioRules(profile, details) ==
  IF RGt(PriceToIncome(profile, details), R(6)) THEN <<Ins("danger", "price-to-income")>>
  ELSE IF RGt(PriceToIncome(profile, details), R(3)) THEN <<Ins("warning", "price-to-income")>>
  ELSE <<Ins("info", "price-to-income")>>

\* EMI-specific insights (619-662)
EmiRules(profile, details, emi) ==
  (IF emi.isAffordable THEN <<Ins("success", "emi-affordable")>>
   ELSE <<Ins("danger", "emi-above-safe-limit")>>)
  \o When(RLt(emi.newSavingsRate, R(15)), <<Ins("warning", "savings-rate-below-15")>>)
  \o When(RLt(emi.newSavingsRate, R(0)), <<Ins("danger", "negative-savings")>>)
  \o When(RGt(emi.totalInterestPaid, R(0)), <<Ins("info", "interest-paid")>>)
  \o When(RGt(emi.impactOnYearlySavings, R(0)), <<Ins("warning", "yearly-savings-impact")>>)
  \o When(RGt(emi.emiBurdenPercent, R(50)), <<Ins("danger", "burden-over-50")>>)
  \o When(RLe(emi.emiBurdenPercent, R(25)), <<Ins("success", "burden-under-25")>>)
  \o When(~emi.isAffordable /\ details.emiTenureMonths # 0 /\ details.emiTenureMonths < 36,
          <<Ins("tip", "extend-tenure")>>)
  \o When(~emi.isAffordable /\ profile.existingSavings > details.downPayment,
          <<Ins("tip", "increase-down-payment")>>)

\* newEmi of the tenure-extension tip (651-654)
EmiQuotients(details, emi) ==
  When(~emi.isAffordable /\ details.emiTenureMonths # 0 /\ details.emiTenureMonths < 36,
       <<calculateEMI(details.actualPrice - details.downPayment, details.interestRate,
                      details.emiTenureMonths + 6)>>)

\* currentSaving = details.monthlySavingForPurchase || profile.extraSavingPerMonth || 0  (685)
CurrentSaving(profile, details) ==
  ROr(ROr(details.monthlySavingForPurchase, R(profile.extraSavingPerMonth)), R(0))

\* (details.actualPrice - profile.existingSavings) / (currentSaving + boostAmount)  (687-688)
BoostedMonthsQuotient(profile, details) ==
  LET currentSaving == CurrentSaving(profile, details)
      boostAmount == RRound(RMul(currentSaving, Norm(5, 10)))
  IN  RDiv(R(details.actualPrice - profile.existingSavings), RAdd(currentSaving, boostAmount))

\* (profile.existingSavings / details.actualPrice) * 100   (696-697)
SavingsCoverPct(profile, details) ==
  RMul(RDiv(R(profile.existingSavings), R(details.actualPrice)), R(100))

\* profile.existingSavings >= details.actualPrice * 0.5   (696)
CoversHalf(profile, details) ==
  RGe(R(profile.existingSavings), RMul(R(details.actualPrice), Norm(5, 10)))

\* profile.existingSavings >= details.actualPrice   (692)
AlreadyEnough_strict(profile, details) == profile.existingSavings > details.actualPrice
AlreadyEnough(profile, details) == profile.existingSavings >= details.actualPrice

\* savings-specific insights (665-699)
SavingsPlanRules(profile, details, savings, hasEmi) ==
  (IF savings.isFeasibleWithinYear THEN <<Ins("success", "save-within-year")>>
   ELSE <<Ins("warning", "save-takes-long")>>)
  \o When(RGt(savings.delayBenefitAmount, R(0)) /\ hasEmi, <<Ins("info", "interest-avoided")>>)
  \o When(RGt(savings.monthsRequired, R(36)), <<Ins("danger", "saving-impractical")>>)
  \o When(RLe(savings.monthsRequired, R(3)), <<Ins("success", "very-close")>>)
  \o When(RGt(savings.monthsRequired, R(12)) /\ RGt(CurrentSaving(profile, details), R(0)),
          <<Ins("tip", "increase-monthly-savings")>>)
  \o When(AlreadyEnough(profile, details), <<Ins("success", "already-enough")>>)
  \o When(CoversHalf(profile, details), <<Ins("info", "savings-cover-percent")>>)

SavingsPlanQuotients(profile, details, savings) ==
  When(RGt(savings.monthsRequired, R(12)) /\ RGt(CurrentSaving(profile, details), R(0)),
       <<BoostedMonthsQuotient(profile, details)>>)
  \o When(CoversHalf(profile, details), <<SavingsCoverPct(profile, details)>>)

\* emergencyMonths = disposable > 0
\*    ? existingSavings / (monthlyExpenses + monthlyRoutineBills) : 0   (706)
EmergencyMonths(profile, disposable) ==
  IF disposable > 0
  THEN RDiv(R(profile.existingSavings),
            R(profile.monthlyExpenses + profile.monthlyRoutineBills))
  ELSE R(0)

\* normalYears = details.actualPrice / (disposable * 12)   (727-728)
NormalYears(details, disposable) == RDiv(R(details.actualPrice), R(disposable * 12))

\* general insights (702-732)
GeneralRules(profile, details, emiOpt, purchaseScore, disposable) ==
  When(disposable <= 0, <<Ins("danger", "expenses-exceed-income")>>)
  \o (IF RLt(EmergencyMonths(profile, disposable), R(3))
      THEN <<Ins("warning", "emergency-fund-short")>>
      ELSE IF RGe(EmergencyMonths(profile, disposable), R(6))
      THEN <<Ins("success", "emergency-fund-strong")>>
      ELSE << >>)
  \o When(RLt(purchaseScore.score, R(50)), <<Ins("tip", "delay-6-months")>>)
  \o When(emiOpt # << >> /\ ~emiOpt[1].isAffordable
            /\ RGt(RSub(emiOpt[1].emiAmount, RMul(R(disposable), Norm(4, 10))), R(0)),
          <<Ins("tip", "cut-discretionary")>>)
  \o When(disposable > 0 /\ details.actualPrice > 0
            /\ RGt(NormalYears(details, disposable), R(0)),
          <<Ins("info", "normal-saving-years")>>)

\* the planner's generateInsights, here with a purchase score always given (as
\* runSimulation calls it): the insights in order, and `quotients`, the value of
\* every division evaluated while building them
generatePlannerInsights(profile, details, emiOpt, savingsOpt, purchaseScore) ==
  LET disposable == profile.monthlyIncome - profile.monthlyExpenses
                      - profile.monthlyRoutineBills
  IN  [insights |->
         VerdictRules(purchaseScore)
         \o PriceRatioRules(profile, details)
         \o (IF emiOpt # << >> THEN EmiRules(profile, details, emiOpt[1]) ELSE << >>)
         \o (IF savingsOpt # << >>
             THEN SavingsPlanRules(profile, details, savingsOpt[1], emiOpt # << >>)
             ELSE << >>)
         \o GeneralRules(profile, details, emiOpt, purchaseScore, disposable),
       quotients |->
         <<PriceToIncome(profile, details)>>
         \o (IF emiOpt # << >> THEN EmiQuotients(details, emiOpt[1]) ELSE << >>)
         \o (IF savingsOpt # << >>
             THEN SavingsPlanQuotients(profile, details, savingsOpt[1]) ELSE << >>)
         \o <<EmergencyMonths(profile, disposable)>>
         \o When(disposable > 0 /\ details.actualPrice > 0,
                 <<NormalYears(details, disposable)>>)]

\* runSimulation (739-772)
runSimulation(profile, details) ==
  The({
    The({
      The({
        [financialProfile |-> profile,
         purchaseDetails |-> details,
         emiAnalysis |-> emiAnalysis,
         savingsAnalysis |-> savingsAnalysis,
         comparison |-> generateComparison(emiAnalysis, savingsAnalysis, savingsDetails),
         purchaseScore |-> purchaseScore,
         insights |-> generatePlannerInsights(profile, details, <<emiAnalysis>>,
                                              <<savingsAnalysis>>, purchaseScore)]
        : savingsAnalysis \in {analyzeSavings(profile, savingsDetails)},
          purchaseScore \in
            {calculatePurchaseScore(profile, <<emiAnalysis>>,
                                    <<analyzeSavings(profile, savingsDetails)>>)} })
      \* the details the savings analysis and the comparison are computed from
      : savingsDetails \in {
          IF details.mode = "emi"
          THEN [details EXCEPT !.mode = "savings",
                  !.monthlySavingForPurchase =
                     ROr(R(profile.extraSavingPerMonth), emiAnalysis.emiAmount)]
          ELSE details} })
    : emiAnalysis \in {IF details.mode = "emi" THEN analyzeEMI(profile, details)
                       ELSE analyzeEMI(profile, [details EXCEPT !.mode = "emi",
                                                   !.emiTenureMonths = 12,
                                                   !.interestRate = 12])} })

\* ------------------------------------------------------------------------
\* Loans (payment.ts 214-334).  A loan date "YYYY-MM-DD" is the record of its
\* month number and its day of the month.
\* ------------------------------------------------------------------------

LoanDate(ym, day) == [ym |-> ym, day |-> day]

\* new Date(a) <= new Date(b) and new Date(a) < new Date(b) for two dates
DateLe(a, b) == a.ym < b.ym \/ (a.ym = b.ym /\ a.day <= b.day)
DateLt(a, b) == a.ym < b.ym \/ (a.ym = b.ym /\ a.day < b.day)

\* d.setMonth(d.getMonth() + 1), for a day of the month every month has
NextMonth(d) == [d EXCEPT !.ym = @ + 1]

\* loanApi._calcMonths (217-221)
calcMonths(start, end) == end.ym - start.ym

\* loanApi._getStatus (224-228); new Date() is an instant of the day `at`, after
\* the midnight new Date(loan.endDate) parses to exactly when at >= endDate
getStatus(loan, at) ==
  IF loan.remainingAmount <= 0 THEN "Completed"
  ELSE IF DateLe(loan.endDate, at) /\ loan.remainingAmount > 0 THEN "Overdue"
  ELSE "Active"

\* one loan of loanApi._refreshStatuses (231-236); also payEmi 305-306
Refreshed(loan, at) ==
  [loan EXCEPT !.loanStatus = getStatus(loan, at),
               !.isActive = (getStatus(loan, at) = "Active")]

refreshStatuses(all, at) == [k \in 1..Len(all) |-> Refreshed(all[k], at)]

\* create's guard: new Date(data.endDate) <= new Date(data.startDate)   (244)
EndNotAfterStart_strict(data) == DateLt(data.endDate, data.startDate)
EndNotAfterStart(data) == DateLe(data.endDate, data.startDate)

\* the loan loanApi.create builds (248-269)
NewLoan(id, userId, data) ==
  [id |-> id,
   userId |-> userId,
   loanName |-> data.loanName,
   totalAmount |-> data.totalAmount,
   emiAmount |-> data.emiAmount,
   remainingAmount |-> data.totalAmount,
   startDate |-> data.startDate,
   endDate |-> data.endDate,
   nextDueDate |-> NextMonth(data.startDate),
   loanDurationMonths |-> calcMonths(data.startDate, data.endDate),
   totalEMIs |-> IF calcMonths(data.startDate, data.endDate) > 1
                 THEN calcMonths(data.startDate, data.endDate) ELSE 1,
   completedEMIs |-> 0,
   loanStatus |-> "Active",
   isActive |-> TRUE]

\* loans.find((l) => l.id === loanId && l.userId === userId): the positions
\* of the matching loans (ids are unique, so at most one)   (289)
FindLoan(all, userId, loanId) ==
  {k \in 1..Len(all) : all[k].id = loanId /\ all[k].userId = userId}

\* the error payEmi throws for a loan before creating an order, or "none"
\* (291-292)
PayEmiRefusal(loan, at) ==
  IF ~loan.isActive /\ loan.loanStatus # "Overdue" THEN "Loan is already fully paid"
  ELSE IF DateLe(loan.endDate, at) /\ loan.remainingAmount <= 0 THEN "Loan is completed."
  ELSE "none"

\* the update without Math.max(0, ...)
PaidOnce_unclamped(loan, at) ==
  Refreshed([loan EXCEPT
               !.remainingAmount = @ - loan.emiAmount,
               !.completedEMIs = @ + 1,
               !.nextDueDate = NextMonth(@)], at)

\* the update of the loan by a verified payment (300-306)
PaidOnce(loan, at) ==
  Refreshed([loan EXCEPT
               !.remainingAmount = IF @ - loan.emiAmount > 0 THEN @ - loan.emiAmount ELSE 0,
               !.completedEMIs = @ + 1,
               !.nextDueDate = NextMonth(@)], at)

\* the expense charged what is still owed when that is less than the installment
EmiExpense_outstanding(loan, at, order) ==
  [userId |-> loan.userId,
   amount |-> IF loan.remainingAmount < loan.emiAmount
              THEN loan.remainingAmount ELSE loan.emiAmount,
   category |-> "Bills", date |-> at.ym,
   description |-> loan.loanName, paymentType |-> "EMI", razorpayOrderId |-> order]

\* the expense payEmi records (311-323)
EmiExpense(loan, at, order) ==
  [userId |-> loan.userId, amount |-> loan.emiAmount, category |-> "Bills",
   date |-> at.ym, description |-> loan.loanName, paymentType |-> "EMI",
   razorpayOrderId |-> order]

\* ------------------------------------------------------------------------
\* State
\* ------------------------------------------------------------------------

VARIABLES
  incomes,    \* the income entries of the user, in insertion order
  expenses,   \* the expense entries of the user, in insertion order
  now,        \* the evaluation instant: the current month (new Date())
  view,       \* the derived views of the last dashboard render, or NoView
  profile,    \* the planner's FinancialProfile input
  details,    \* the planner's PurchaseDetails input
  sim,        \* the SimulationResult of the last runSimulation, or NoSim
  history,    \* the stored simulation history of each user, head first
  saved,      \* the number of simulation results each user saved so far
  loans,      \* the loan store (localStorage "cfo_loans"), in insertion order
  calls,      \* the payEmi calls in flight, per caller
  today,      \* the current date (new Date()), to the day
  orders,     \* the number of payment orders created so far
  started,    \* the number of loan API calls made so far
  outcome     \* what the last loan API call that returned or threw ended with

vars == <<incomes, expenses, now, view, profile, details, sim, history, saved,
          loans, calls, today, orders, started, outcome>>
ledgerVars == <<incomes, expenses, now, view>>
plannerVars == <<profile, details, sim, history, saved>>
loanVars == <<loans, calls, today, orders, started, outcome>>

\* bounds of the model
MaxRecords == 2
MaxAmount == 1
MaxScenarioLag == 1

Amounts == 0..MaxAmount
Categories == {"Food", "Shopping"}

\* the evaluation instant of the ledger specification: April 2026
Now0 == 2026 * MonthsPerYear + 3

\* the months entries are dated in: the month before the window, the oldest
\* month of the window, the previous month and the current month
Dates == {Now0 - WindowMonths, Now0 - (WindowMonths - 1), Now0 - 1, Now0}

NoView == [rendered |-> FALSE]
NoSim == [simulated |-> FALSE, scored |-> FALSE]

\* the planner page's initial form state (part_010 130-137)
DefaultProfile ==
  [monthlyIncome |-> 0, monthlyExpenses |-> 0, monthlyRoutineBills |-> 0,
   existingSavings |-> 0, extraSavingPerMonth |-> 0]
DefaultDetails ==
  [actualPrice |-> 0, mode |-> "emi", downPayment |-> 0, emiTenureMonths |-> 12,
   interestRate |-> 12, monthlySavingForPurchase |-> R(0)]

LedgerInit ==
  /\ incomes = << >>
  /\ expenses = << >>
  /\ now = Now0
  /\ view = NoView

\* the users of the stores
Users == {"u1", "u2"}

\* no result saved: localStorage holds no history key
NoHistory ==
  /\ history = [u \in Users |-> << >>]
  /\ saved = [u \in Users |-> 0]

PlannerIdle ==
  /\ profile = DefaultProfile
  /\ details = DefaultDetails
  /\ sim = NoSim
  /\ NoHistory

\* the callers of payEmi that may be in flight at once, and the loan API calls
\* of a behaviour
MaxCallers == 2
MaxCalls == 3

Callers == 1..MaxCallers
NoCall == [pc |-> "idle"]
NoOutcome == [n |-> 0, op |-> "none", arg |-> "none", error |-> "none"]

\* the dates of the loan specification: today's date moves along the calendar
Day0 == LoanDate(Now0, 1)
LoanCalendar == <<Day0, LoanDate(Now0 + 1, 1)>>

\* no loan stored, no loan API call made
LoanIdle ==
  /\ loans = << >>
  /\ calls = [p \in Callers |-> NoCall]
  /\ today = Day0
  /\ orders = 0
  /\ started = 0
  /\ outcome = NoOutcome

\* ------------------------------------------------------------------------
\* The ledger and the dashboard
\* ------------------------------------------------------------------------

\* every derived view, computed from the same records at the same instant
\* (Dashboard.tsx 101-108, and the peak and quarter analyses)
DashboardView(is, es, at) ==
  [rendered |-> TRUE,
   incomes |-> is, expenses |-> es, now |-> at,
   monthly |-> getMonthlyAggregates(is, es, at),
   categories |-> getCategorySummaries(es, at),
   yearly |-> getYearlySummary(is, es, at),
   health |-> getFinancialHealthScore(is, es, at),
   currentMonth |-> getCurrentMonthStats(is, es, at),
   predictions |-> getPredictions(is, es, at),
   peaks |-> getPeakAnalysis(is, es, at),
   quarters |-> getQuarterData(is, es, at),
   insights |-> generateInsights(is, es, at)]

\* incomeApi.add: the entry is appended to the store; the memoized views are stale
AddIncome(amount, date) ==
  /\ Len(incomes) + Len(expenses) < MaxRecords
  /\ incomes' = Append(incomes, [amount |-> amount, date |-> date])
  /\ view' = NoView
  /\ UNCHANGED <<expenses, now, plannerVars, loanVars>>

\* expenseApi.add
AddExpense(amount, category, date) ==
  /\ Len(incomes) + Len(expenses) < MaxRecords
  /\ expenses' = Append(expenses, [amount |-> amount, category |-> category, date |-> date])
  /\ view' = NoView
  /\ UNCHANGED <<incomes, now, plannerVars, loanVars>>

\* a render whose functions read a clock one month behind the evaluation instant
Render_otherInstant ==
  /\ view = NoView
  /\ view' = [DashboardView(incomes, expenses, now - 1) EXCEPT !.now = now]
  /\ UNCHANGED <<incomes, expenses, now, plannerVars, loanVars>>

\* the dashboard recomputes every view from the current records
Render ==
  /\ view = NoView
  /\ view' = DashboardView(incomes, expenses, now)
  /\ UNCHANGED <<incomes, expenses, now, plannerVars, loanVars>>

Init == LedgerInit /\ PlannerIdle /\ LoanIdle

Next ==
  \/ \E a \in Amounts, d \in Dates : AddIncome(a, d)
  \/ \E a \in Amounts, c \in Categories, d \in Dates : AddExpense(a, c, d)
  \/ Render

Spec == Init /\ [][Next]_vars

\* ------------------------------------------------------------------------
\* The scenario of three consecutive months: income 50,000 in each, expenses
\* 20,000, 45,000 and 20,000 (amounts in thousands of rupees; the entries of a
\* month are entered in that month or later, all expenses in one category)
\* ------------------------------------------------------------------------

ScenarioIncomes == <<50, 50, 50>>
ScenarioExpenses == <<20, 45, 20>>

\* the k-th month of the scenario; the third is April 2026
ScenarioMonth(k) == Now0 - 3 + k

Entered(entries, k) == \E j \in 1..Len(entries) : entries[j].date = ScenarioMonth(k)

EnterIncome(k) ==
  /\ ScenarioMonth(k) <= now
  /\ ~Entered(incomes, k)
  /\ incomes' = Append(incomes, [amount |-> ScenarioIncomes[k], date |-> ScenarioMonth(k)])
  /\ view' = NoView
  /\ UNCHANGED <<expenses, now, plannerVars, loanVars>>

EnterExpense(k, category) ==
  /\ ScenarioMonth(k) <= now
  /\ ~Entered(expenses, k)
  /\ IF expenses = << >> THEN TRUE ELSE category = expenses[1].category
  /\ expenses' = Append(expenses, [amount |-> ScenarioExpenses[k], category |-> category,
                                   date |-> ScenarioMonth(k)])
  /\ view' = NoView
  /\ UNCHANGED <<incomes, now, plannerVars, loanVars>>

\* the calendar moves on to the next month
Tick ==
  /\ now < ScenarioMonth(3) + MaxScenarioLag
  /\ now' = now + 1
  /\ view' = NoView
  /\ UNCHANGED <<incomes, expenses, plannerVars, loanVars>>

ScenarioInit ==
  /\ incomes = << >>
  /\ expenses = << >>
  /\ now = ScenarioMonth(1)
  /\ view = NoView
  /\ PlannerIdle
  /\ LoanIdle

ScenarioNext ==
  \/ \E k \in 1..3 : EnterIncome(k)
  \/ \E k \in 1..3, c \in Categories : EnterExpense(k, c)
  \/ Tick
  \/ Render

SpecScenario == ScenarioInit /\ [][ScenarioNext]_vars

\* ------------------------------------------------------------------------
\* Histories: the ledger of a user who has entered, for each of the last
\* HistoryLength months, at most one income and at most one expense
\* ------------------------------------------------------------------------

HistoryLength == 4

HistoryIncomes == {0, 10}
HistoryExpenses == {0, 5, 10}

\* the k-th month of a history; the last is the current month
HistoryMonth(k) == Now0 - (HistoryLength - k)

HistoryInit ==
  /\ \E inc \in [1..HistoryLength -> HistoryIncomes],
        exp \in [1..HistoryLength -> HistoryExpenses] :
        /\ incomes = SelectSeq([k \in 1..HistoryLength |->
                                  [amount |-> inc[k], date |-> HistoryMonth(k)]],
                               LAMBDA i : i.amount > 0)
        /\ expenses = SelectSeq([k \in 1..HistoryLength |->
                                   [amount |-> exp[k], category |-> "Food",
                                    date |-> HistoryMonth(k)]],
                                LAMBDA e : e.amount > 0)
  /\ now = Now0
  /\ view = NoView
  /\ PlannerIdle
  /\ LoanIdle

HistoryNext == Render

SpecHistory == HistoryInit /\ [][HistoryNext]_vars

\* ------------------------------------------------------------------------
\* The planner
\* ------------------------------------------------------------------------

Modes == {"emi", "savings", "save-extra"}

\* the profile and the purchase of the affordability scenario
ScenarioProfile ==
  [monthlyIncome |-> 60000, monthlyExpenses |-> 30000, monthlyRoutineBills |-> 5000,
   existingSavings |-> 0, extraSavingPerMonth |-> 0]
ScenarioPurchase ==
  [actualPrice |-> 120000, mode |-> "emi", downPayment |-> 0, emiTenureMonths |-> 12,
   interestRate |-> 0, monthlySavingForPurchase |-> R(0)]

\* the inputs of the planner specification: the form's number fields accept
\* any number (part_010: +e.target.value, no minimum)
Profiles ==
  [monthlyIncome : {0, 600}, monthlyExpenses : {0, 300},
   monthlyRoutineBills : {0, 50}, existingSavings : {0, 1200},
   extraSavingPerMonth : {0, 100}]
  \cup {ScenarioProfile}

Purchases ==
  [actualPrice : {0, 1200}, mode : Modes, downPayment : {0, 200, 1500},
   emiTenureMonths : {12, 24}, interestRate : {0, 12},
   monthlySavingForPurchase : {R(-10), R(0), R(50)}]
  \cup {ScenarioPurchase}

PlannerInit ==
  /\ LedgerInit
  /\ profile \in Profiles
  /\ details \in Purchases
  /\ sim = NoSim
  /\ NoHistory
  /\ LoanIdle

\* runSimulation applied to the profile and the purchase
Simulate ==
  /\ sim = NoSim
  /\ sim' = [simulated |-> TRUE, scored |-> FALSE] @@ runSimulation(profile, details)
  /\ UNCHANGED <<ledgerVars, profile, details, history, saved, loanVars>>

\* calculatePurchaseScore called on its own, each of the two analyses of the
\* purchase given or left out
Score(withEmi, withSavings) ==
  /\ sim = NoSim
  /\ sim' = [simulated |-> FALSE, scored |-> TRUE,
             withEmi |-> withEmi, withSavings |-> withSavings,
             purchaseScore |->
               calculatePurchaseScore(
                 profile,
                 IF withEmi THEN <<analyzeEMI(profile, details)>> ELSE << >>,
                 IF withSavings THEN <<analyzeSavings(profile, details)>> ELSE << >>)]
  /\ UNCHANGED <<ledgerVars, profile, details, history, saved, loanVars>>

PlannerNext ==
  \/ Simulate
  \/ \E withEmi \in BOOLEAN, withSavings \in BOOLEAN : Score(withEmi, withSavings)

SpecPlanner == PlannerInit /\ [][PlannerNext]_vars

\* ------------------------------------------------------------------------
\* The simulation history (insights.ts 774-793): one localStorage key per
\* user, holding the array of the user's saved results.  A result is
\* identified by its id: the user who saved it and its number in the order of
\* that user's saves.
\* ------------------------------------------------------------------------

\* the length the stored history is cut to (780)
HistoryCap == 20

\* the results the first user and the other users save in a behaviour
MaxSaves == 22
MaxOtherSaves == 2

SaveLimit(userId) == IF userId = "u1" THEN MaxSaves ELSE MaxOtherSaves

\* the result a user saves next
NextResult(userId) == [id |-> <<userId, saved[userId] + 1>>]

\* if (history.length > 20) history.shift(), dropping the newest result
Trimmed_shift(h) == IF Len(h) > HistoryCap THEN Tail(h) ELSE h

\* if (history.length > 20) history.pop()   (780)
Trimmed(h) == IF Len(h) > HistoryCap THEN SubSeq(h, 1, Len(h) - 1) ELSE h

\* getSimulationHistory (784-787)
getSimulationHistory(userId) == history[userId]

\* saveSimulation (776-782): history.unshift(result), the cut, and the write
saveSimulation(userId) ==
  /\ saved[userId] < SaveLimit(userId)
  /\ saved' = [saved EXCEPT ![userId] = @ + 1]
  /\ history' = [history EXCEPT
                   ![userId] = Trimmed(<<NextResult(userId)>>
                                         \o getSimulationHistory(userId))]
  /\ UNCHANGED <<ledgerVars, profile, details, sim, loanVars>>

\* clearSimulationHistory (789-791): the key of the user is removed
clearSimulationHistory(userId) ==
  /\ history[userId] # << >>
  /\ history' = [history EXCEPT ![userId] = << >>]
  /\ UNCHANGED <<ledgerVars, profile, details, sim, saved, loanVars>>

SimulationsNext ==
  \/ \E u \in Users : saveSimulation(u)
  \/ \E u \in Users : clearSimulationHistory(u)

SpecSimulations == Init /\ [][SimulationsNext]_vars

\* ------------------------------------------------------------------------
\* The loan manager: loanApi over the loan store, the payment orders and the
\* expense store.  A call runs atomically between two of its awaits; payEmi
\* awaits the order, the verification and the expense store.
\* ------------------------------------------------------------------------

MaxLoanAmount == 3

LoanIds == 1..MaxCalls

\* the data of a create call
LoanRequests ==
  [loanName : {"Car"}, totalAmount : {0, MaxLoanAmount}, emiAmount : {2, MaxLoanAmount},
   startDate : {LoanDate(Now0, 15)},
   endDate : {Day0, LoanDate(Now0, 15), LoanDate(Now0 + 1, 1)}]

Returned(n, op, arg, error) == [n |-> n, op |-> op, arg |-> arg, error |-> error]

\* loanApi.create (239-275): the id of the new loan is fresh
LoanCreate(userId, data) ==
  /\ started < MaxCalls
  /\ started' = started + 1
  /\ IF EndNotAfterStart(data)
     THEN /\ outcome' = Returned(started + 1, "create", data,
                                 "End date must be after start date.")
          /\ loans' = loans
     ELSE /\ outcome' = Returned(started + 1, "create", data, "none")
          /\ loans' = Append(loans, NewLoan(started + 1, userId, data))
  /\ UNCHANGED <<calls, today, orders, ledgerVars, plannerVars>>

\* loanApi.getAll (278-284): the statuses of all loans are refreshed and
\* stored; the loans of the user are returned
LoanGetAll(userId) ==
  /\ started < MaxCalls
  /\ started' = started + 1
  /\ loans' = refreshStatuses(loans, today)
  /\ outcome' = Returned(started + 1, "getAll", userId, "none")
  /\ UNCHANGED <<calls, today, orders, ledgerVars, plannerVars>>

\* loanApi.delete (329-333)
LoanDelete(loanId) ==
  /\ started < MaxCalls
  /\ started' = started + 1
  /\ loans' = SelectSeq(loans, LAMBDA l : l.id # loanId)
  /\ outcome' = Returned(started + 1, "delete", loanId, "none")
  /\ UNCHANGED <<calls, today, orders, ledgerVars, plannerVars>>

\* loanApi.payEmi up to its first await (288-294): the store is read, the loan
\* is looked up and checked, and the order is requested
PayEmiStart(p, userId, loanId) ==
  /\ started < MaxCalls
  /\ calls[p] = NoCall
  /\ started' = started + 1
  /\ IF FindLoan(loans, userId, loanId) = {}
     THEN /\ outcome' = Returned(started + 1, "payEmi", loanId, "Loan not found")
          /\ calls' = calls
     ELSE \E k \in FindLoan(loans, userId, loanId) :
            IF PayEmiRefusal(loans[k], today) # "none"
            THEN /\ outcome' = Returned(started + 1, "payEmi", loanId,
                                        PayEmiRefusal(loans[k], today))
                 /\ calls' = calls
            ELSE /\ outcome' = outcome
                 /\ calls' = [calls EXCEPT ![p] =
                                [pc |-> "order", n |-> started + 1, loanId |-> loanId,
                                 at |-> k, snapshot |-> loans]]
  /\ UNCHANGED <<loans, today, orders, ledgerVars, plannerVars>>

\* paymentApi.createOrder returns (77-87); payEmi requests the verification
PayEmiOrder(p) ==
  /\ calls[p].pc = "order"
  /\ orders' = orders + 1
  /\ calls' = [calls EXCEPT ![p] = [calls[p] EXCEPT !.pc = "verify"] @@
                                    [order |-> orders + 1]]
  /\ UNCHANGED <<loans, today, started, outcome, ledgerVars, plannerVars>>

\* paymentApi.verifyPayment returns (94-104) and payEmi goes on (295-323): not
\* verified, it throws; verified, it updates the loan it read at its start,
\* stores the loans it read, and asks the expense store to add the expense
PayEmiVerify(p, verified) ==
  /\ calls[p].pc = "verify"
  /\ IF ~verified
     THEN /\ outcome' = Returned(calls[p].n, "payEmi", calls[p].loanId,
                                 "EMI payment failed.")
          /\ calls' = [calls EXCEPT ![p] = NoCall]
          /\ loans' = loans
     ELSE /\ outcome' = outcome
          /\ loans' = [calls[p].snapshot EXCEPT ![calls[p].at] = PaidOnce(@, today)]
          /\ calls' = [calls EXCEPT ![p] =
                         [pc |-> "expense", n |-> calls[p].n, loanId |-> calls[p].loanId,
                          expense |-> EmiExpense(calls[p].snapshot[calls[p].at], today,
                                                 calls[p].order)]]
  /\ UNCHANGED <<today, orders, started, ledgerVars, plannerVars>>

\* expenseApi.add stores the expense (part_006 165-172) and payEmi returns it
PayEmiExpense(p) ==
  /\ calls[p].pc = "expense"
  /\ expenses' = Append(expenses, calls[p].expense)
  /\ view' = NoView
  /\ outcome' = Returned(calls[p].n, "payEmi", calls[p].loanId, "none")
  /\ calls' = [calls EXCEPT ![p] = NoCall]
  /\ UNCHANGED <<incomes, now, loans, today, orders, started, plannerVars>>

\* the calendar moves on to the next date
LoanTick ==
  /\ \E k \in 1..(Len(LoanCalendar) - 1) :
        /\ today = LoanCalendar[k]
        /\ today' = LoanCalendar[k + 1]
  /\ now' = today'.ym
  /\ view' = NoView
  /\ UNCHANGED <<incomes, expenses, loans, calls, orders, started, outcome, plannerVars>>

LoanNext ==
  \/ \E u \in Users, data \in LoanRequests : LoanCreate(u, data)
  \/ \E u \in Users : LoanGetAll(u)
  \/ \E id \in LoanIds : LoanDelete(id)
  \/ \E p \in Callers, u \in Users, id \in LoanIds : PayEmiStart(p, u, id)
  \/ \E p \in Callers : PayEmiOrder(p)
  \/ \E p \in Callers, verified \in BOOLEAN : PayEmiVerify(p, verified)
  \/ \E p \in Callers : PayEmiExpense(p)
  \/ LoanTick

SpecLoans == Init /\ [][LoanNext]_vars

\* The loan manager called sequentially: a call starts only when no payEmi call
\* is in flight
Quiet == \A p \in Callers : calls[p] = NoCall

SequentialNext ==
  \/ Quiet /\ \E u \in Users, data \in LoanRequests : LoanCreate(u, data)
  \/ Quiet /\ \E u \in Users : LoanGetAll(u)
  \/ Quiet /\ \E id \in LoanIds : LoanDelete(id)
  \/ Quiet /\ \E p \in Callers, u \in Users, id \in LoanIds : PayEmiStart(p, u, id)
  \/ \E p \in Callers : PayEmiOrder(p)
  \/ \E p \in Callers, verified \in BOOLEAN : PayEmiVerify(p, verified)
  \/ \E p \in Callers : PayEmiExpense(p)
  \/ LoanTick

SpecSequentialLoans == Init /\ [][SequentialNext]_vars

\* ------------------------------------------------------------------------
\* Properties
\* ------------------------------------------------------------------------

RECURSIVE SumField(_, _)
SumField(months, field) ==
  IF months = << >> THEN 0 ELSE Head(months)[field] + SumField(Tail(months), field)

HasInsight(result, type, rule) ==
  \E k \in 1..Len(result.insights) : result.insights[k] = Ins(type, rule)

AllFinite(values) == \A k \in 1..Len(values) : IsFinite(values[k])

\* the aggregate of the window for a month label
IsActiveLabel(monthly, label) ==
  \E k \in 1..Len(monthly) : monthly[k].month = label /\ IsActive(monthly[k])

\* C1: in every rendered view each of the 12 monthly aggregates has
\* savings = income - expenses, and the savings of the window sum to the income
\* of the window minus its expenses.
C1_SavingsIdentity ==
  view.rendered =>
    /\ Len(view.monthly) = WindowMonths
    /\ \A k \in 1..Len(view.monthly) :
         view.monthly[k].savings = view.monthly[k].income - view.monthly[k].expenses
    /\ SumField(view.monthly, "savings")
         = SumField(view.monthly, "income") - SumField(view.monthly, "expenses")

C1_Witness ==
  /\ view.rendered
  /\ \E k \in 1..Len(view.monthly) :
       view.monthly[k].income > 0 /\ view.monthly[k].expenses > 0

\* C2: the health score of every record set, the empty one included, is an
\* integer in [0, 100]; it has 5 factors, each with a sub-score in [0, 100],
\* and the weights of the factors sum to 1.
C2_HealthScoreRange ==
  view.rendered =>
    LET h == view.health
    IN  /\ IsFinite(h.score) /\ h.score.d = 1
        /\ h.score.n >= 0 /\ h.score.n <= 100
        /\ Len(h.factors) = 5
        /\ \A k \in 1..Len(h.factors) :
             /\ IsFinite(h.factors[k].score)
             /\ RGe(h.factors[k].score, R(0))
             /\ RLe(h.factors[k].score, R(100))
        /\ RSum([k \in 1..Len(h.factors) |-> h.factors[k].weight]) = R(1)

\* a record set whose savings rate, times 3.33, exceeds 100
C2_Witness ==
  /\ view.rendered
  /\ RGt(RMul(view.yearly.savingsRate, Norm(333, 100)), R(100))
  /\ view.health.factors[1].score = R(100)

\* C3: with no income entry and no expense entry the record-based
\* generateInsights returns exactly one insight, of type info.
C3_NoRecordsOneInfo ==
  (view.rendered /\ view.incomes = << >> /\ view.expenses = << >>) =>
    /\ Len(view.insights.insights) = 1
    /\ view.insights.insights[1].type = "info"

C3_Witness ==
  view.rendered /\ view.incomes = << >> /\ view.expenses = << >>

\* C4 (as the code decides it): for the profile {income 60000, expenses 30000,
\* bills 5000, savings 0, extra saving 0} and the purchase {price 120000, emi,
\* down payment 0, tenure 12, rate 0} the EMI is 10000, the burden is exactly
\* 40% of the disposable income 25000, and isAffordable is false (40 < 40 fails).
C4_ScenarioBoundaryNotAffordable ==
  (sim.simulated /\ profile = ScenarioProfile /\ details = ScenarioPurchase) =>
    /\ sim.emiAnalysis.emiAmount = R(10000)
    /\ sim.emiAnalysis.disposableIncome = R(25000)
    /\ sim.emiAnalysis.emiBurdenPercent = R(40)
    /\ sim.emiAnalysis.isAffordable = FALSE

C4_Witness ==
  sim.simulated /\ profile = ScenarioProfile /\ details = ScenarioPurchase

\* C4 as stated: the scenario yields emiAmount 10000 and isAffordable true.
C4_ScenarioAffordable ==
  (sim.simulated /\ profile = ScenarioProfile /\ details = ScenarioPurchase) =>
    /\ sim.emiAnalysis.emiAmount = R(10000)
    /\ sim.emiAnalysis.isAffordable = TRUE

\* C5 as stated: no division evaluated by the record-based generateInsights has
\* a zero denominator, so every quotient it computes is finite.
C5_InsightQuotientsFinite ==
  view.rendered => AllFinite(view.insights.quotients)

\* C6: every ratio of the aggregation layer with a zero denominator is 0:
\* the savings rate when income is 0 (monthly, current month, yearly, quarter),
\* a category's percentage when the total of all expenses is 0, a category's
\* growth when its prior-month total is 0, the yearly averages when no month is
\* active, and a peak's percentAboveAvg when the mean is 0.
C6_ZeroDenominatorYieldsZero ==
  view.rendered =>
    /\ \A k \in 1..Len(view.monthly) :
         view.monthly[k].income = 0 => view.monthly[k].savingsRate = R(0)
    /\ view.currentMonth.income = 0 => view.currentMonth.savingsRate = R(0)
    /\ view.yearly.totalIncome = 0 => view.yearly.savingsRate = R(0)
    /\ \A q \in 1..Len(view.quarters) :
         view.quarters[q].income = 0 => view.quarters[q].savingsRate = R(0)
    /\ \A c \in 1..Len(view.categories) :
         /\ SumAmount(view.expenses) = 0 => view.categories[c].percentage = R(0)
         /\ view.categories[c].monthlyBreakdown[MonthOf(view.now - 1)] = 0
              => view.categories[c].growth = R(0)
    /\ view.yearly.monthsTracked = 0 =>
         /\ view.yearly.averageMonthlyExpense = R(0)
         /\ view.yearly.averageMonthlyIncome = R(0)
    /\ \A f \in {"peakIncome", "peakExpense", "peakSavings"} :
         view.peaks[f].avg = R(0) => view.peaks[f].percentAboveAvg = R(0)

\* an expense of the current month in a category without one in the previous
\* month, and no income at all: the denominators of the savings rates, of the
\* growth and of the income peak are all 0
C6_Witness ==
  /\ view.rendered
  /\ view.yearly.totalIncome = 0
  /\ view.currentMonth.expenses > 0
  /\ \E c \in 1..Len(view.categories) :
       /\ view.categories[c].monthlyBreakdown[MonthOf(view.now)] > 0
       /\ view.categories[c].monthlyBreakdown[MonthOf(view.now - 1)] = 0
  /\ view.peaks.peakIncome.avg = R(0)
  /\ view.peaks.peakExpense.value > 0

\* the scenario evaluated in its second month, the entries of the first two
\* months entered
ScenarioSecondMonth ==
  /\ view.rendered
  /\ view.now = ScenarioMonth(2)
  /\ \A k \in 1..2 : Entered(view.incomes, k) /\ Entered(view.expenses, k)

C8_BestWorstActive ==
  (view.rendered /\ view.yearly.monthsTracked > 0) =>
    /\ IsActiveLabel(view.monthly, view.yearly.bestMonth)
    /\ IsActiveLabel(view.monthly, view.yearly.worstMonth)

\* the numeric outputs of a simulation
SimNumbers(result) ==
  LET e == result.emiAnalysis
      sv == result.savingsAnalysis
      c == result.comparison
      ps == result.purchaseScore
  IN  <<e.emiAmount, e.totalAmountWithInterest, e.totalInterestPaid, e.emiBurdenPercent,
        e.newSavingsRate, e.impactOnYearlySavings, e.disposableIncome,
        e.emiToDisposableRatio,
        sv.monthsRequired, sv.yearsRequired, sv.delayBenefitAmount,
        c.totalCostEMI, c.totalCostSavings, c.timeDifferenceMonths, c.monthlyBurdenEMI,
        c.monthlyBurdenSavings, c.interestSaved, c.breakEvenMonth,
        ps.score>>

\* C9 as stated: for every profile and purchase every numeric output of
\* runSimulation is finite and no division it evaluates, the ones of the
\* insight messages included, has a zero denominator.
C9_SimulationFinite ==
  sim.simulated =>
    /\ AllFinite(SimNumbers(sim))
    /\ AllFinite(sim.insights.quotients)

\* C10 as stated: the effective monthly saving is at least 1 for every input,
\* and monthsRequired is a finite non-negative integer.
C10_MonthsRequiredNonNegative ==
  sim.simulated =>
    /\ IsFinite(sim.savingsAnalysis.monthsRequired)
    /\ sim.savingsAnalysis.monthsRequired.d = 1
    /\ sim.savingsAnalysis.monthsRequired.n >= 0

\* C11: for every profile and purchase with existingSavings >= price, in every
\* mode (emi, savings, save-extra), the savings analysis of runSimulation has
\* monthsRequired = 0 and the insights carry the success insight "you already
\* have enough savings to buy this outright".
C11_AlreadyAffordable ==
  (sim.simulated /\ profile.existingSavings >= details.actualPrice) =>
    /\ sim.savingsAnalysis.monthsRequired = R(0)
    /\ HasInsight(sim.insights, "success", "already-enough")

C11_Witness ==
  /\ sim.simulated
  /\ details.mode = "save-extra"
  /\ details.actualPrice > 0
  /\ profile.existingSavings = details.actualPrice
  /\ sim.savingsAnalysis.monthsRequired = R(0)

\* C12: a loanApi.create call whose end date is not after its start date
\* throws and stores no loan; a loanApi.payEmi call on a loan stored with status
\* Completed throws before any order is created: no order, no call in flight,
\* the loan store and the expense store unchanged.
C12_RefusedLoanCalls ==
  [][/\ \A u \in Users, data \in LoanRequests :
          (LoanCreate(u, data) /\ ~DateLt(data.startDate, data.endDate)) =>
             /\ outcome'.n = started'
             /\ outcome'.error = "End date must be after start date."
             /\ loans' = loans
     /\ \A p \in Callers, u \in Users, id \in LoanIds :
          (/\ PayEmiStart(p, u, id)
           /\ \E k \in FindLoan(loans, u, id) : loans[k].loanStatus = "Completed") =>
             /\ outcome'.n = started'
             /\ outcome'.error # "none"
             /\ orders' = orders
             /\ calls' = calls
             /\ loans' = loans
             /\ expenses' = expenses]_vars

\* a loan was paid off by one verified payment and the next payEmi was refused
C12_Witness ==
  /\ outcome.op = "payEmi"
  /\ outcome.error = "Loan is already fully paid"
  /\ orders = 1
  /\ Len(expenses) = 1
  /\ \A p \in Callers : calls[p] = NoCall
  /\ \E k \in 1..Len(loans) :
        /\ loans[k].id = outcome.arg
        /\ loans[k].loanStatus = "Completed"
        /\ loans[k].completedEMIs = 1

RECURSIVE AmountDated(_, _)
AmountDated(entries, ym) ==
  IF entries = << >> THEN 0
  ELSE (IF Head(entries).date = ym THEN Head(entries).amount ELSE 0)
         + AmountDated(Tail(entries), ym)

\* C14: getMonthlyAggregates returns exactly 12 aggregates, the k-th being the
\* aggregate of the calendar month 12 - k months before the current month
\* (oldest first); the income and the expenses of an aggregate are the sums of
\* the entries dated in its month (zero when there is none), so an entry of the
\* window is counted in the aggregate of its month only and an entry outside
\* the window in none.
C14_TrailingWindow ==
  view.rendered =>
    /\ Len(view.monthly) = 12
    /\ \A k \in 1..Len(view.monthly) :
         /\ view.monthly[k].year * 12 + view.monthly[k].monthIndex = view.now - (12 - k)
         /\ view.monthly[k].month = view.monthly[k].monthIndex
         /\ view.monthly[k].income = AmountDated(view.incomes, view.now - (12 - k))
         /\ view.monthly[k].expenses = AmountDated(view.expenses, view.now - (12 - k))

\* an income dated before the window and an expense in its oldest month
C14_Witness ==
  /\ view.rendered
  /\ \E k \in 1..Len(view.incomes) :
        view.incomes[k].date = view.now - 12 /\ view.incomes[k].amount > 0
  /\ SumField(view.monthly, "income") = 0
  /\ view.monthly[1].expenses > 0
  /\ \A k \in 2..12 : view.monthly[k].expenses = 0

\* C15: when the total of the expenses is greater than 0, getCategorySummaries
\* returns exactly one summary for each category that has an expense, the
\* percentages of the summaries sum to 100, and the totals of the summaries sum
\* to the total of all expenses.
C15_PercentagesSumTo100 ==
  (view.rendered /\ SumAmount(view.expenses) > 0) =>
    /\ {view.categories[k].category : k \in 1..Len(view.categories)}
         = {view.expenses[k].category : k \in 1..Len(view.expenses)}
    /\ \A j, k \in 1..Len(view.categories) :
         view.categories[j].category = view.categories[k].category => j = k
    /\ RSum([k \in 1..Len(view.categories) |-> view.categories[k].percentage]) = R(100)
    /\ SumField(view.categories, "total") = SumAmount(view.expenses)

\* two categories with half of the expenses each
C15_Witness ==
  /\ view.rendered
  /\ Len(view.categories) = 2
  /\ view.categories[1].percentage = R(50)
  /\ view.categories[2].percentage = R(50)

\* a purchase score is an integer of 0..100, has 5 factors whose weights sum
\* to 1, and is labelled safe from 65, moderate from 40 and risky below
PurchaseScoreWellFormed(ps) ==
  /\ ps.score.d = 1
  /\ ps.score.n \in 0..100
  /\ Len(ps.factors) = 5
  /\ RSum([k \in 1..Len(ps.factors) |-> ps.factors[k].weight]) = R(1)
  /\ ps.feasibility = (IF ps.score.n >= 65 THEN "safe"
                       ELSE IF ps.score.n >= 40 THEN "moderate" ELSE "risky")

\* C16: for every profile, with each of the EMI analysis and the savings
\* analysis present or absent (and in every result of runSimulation), the
\* purchase score is an integer in [0,100] built from 5 factors whose weights
\* sum to 1, labelled safe when score >= 65, moderate when 40 <= score < 65 and
\* risky otherwise.
C16_PurchaseScoreWellFormed ==
  (sim.scored \/ sim.simulated) => PurchaseScoreWellFormed(sim.purchaseScore)

\* no analysis given: affordability 50, time efficiency 60, debt risk 90
C16_Witness ==
  /\ sim.scored
  /\ ~sim.withEmi
  /\ ~sim.withSavings
  /\ sim.purchaseScore.factors[1].score = R(50)
  /\ sim.purchaseScore.feasibility = "moderate"

\* the trend of the savings rate over the last two of the given months: 90
\* when it rose, 20 when it fell, 50 when equal or there are fewer than two
TrendOver(months) ==
  IF Len(months) < 2 THEN R(50)
  ELSE IF RGt(months[Len(months)].savingsRate, months[Len(months) - 1].savingsRate)
  THEN R(90)
  ELSE IF RLt(months[Len(months)].savingsRate, months[Len(months) - 1].savingsRate)
  THEN R(20)
  ELSE R(50)

\* C17 as stated: the Financial Trend factor of the health score is 90 when
\* the savings rate of the latest active month (nonzero income or nonzero
\* expenses) is higher than that of the prior active month, 20 when it is
\* lower, and 50 when they are equal or fewer than two active months exist.
C17_TrendOverActiveMonths ==
  view.rendered =>
    /\ view.health.factors[5].label = "Financial Trend"
    /\ view.health.factors[5].score = TrendOver(SelectSeq(view.monthly, IsActive))

\* the trend class of the difference between the savings rates of the last of
\* the given months and of the month `back` positions before it (the first of
\* the months when there are not that many)
TrendClass(months, back) ==
  IF Len(months) < 2 THEN "stable"
  ELSE LET base == IF Len(months) > back THEN months[Len(months) - back] ELSE months[1]
           diff == RSub(months[Len(months)].savingsRate, base.savingsRate)
       IN  IF RGt(diff, R(3)) THEN "improving"
           ELSE IF RLt(diff, R(-3)) THEN "declining" ELSE "stable"

\* C18 (as the code decides it): getPredictions classifies the trend by the
\* difference between the savings rates of the most recent active month and of
\* the active month 2 positions back, the oldest of the last 3 active months
\* (the oldest active month when there are fewer than 3): improving above 3
\* points, declining below -3, stable otherwise.
C18_TrendOverLastThree ==
  view.rendered =>
    view.predictions.trend = TrendClass(SelectSeq(view.monthly, IsActive), 2)

\* four active months: the rate of the latest is that of the month 2 positions
\* back and above that of the month 3 positions back
C18_Witness ==
  /\ view.rendered
  /\ Len(SelectSeq(view.monthly, IsActive)) = 4
  /\ view.monthly[12].savingsRate = view.monthly[10].savingsRate
  /\ RGt(view.monthly[12].savingsRate, view.monthly[9].savingsRate)
  /\ view.predictions.trend = "stable"

\* C18 as stated: the savings rate of the most recent active month is compared
\* with that of the active month 3 positions back (the oldest active month if
\* there is none).
C18_TrendOverThreeBack ==
  view.rendered =>
    view.predictions.trend = TrendClass(SelectSeq(view.monthly, IsActive), 3)

\* the expenses of a category
OfCategory(entries, category) == SelectSeq(entries, LAMBDA e : e.category = category)

\* the percentage change from prior to current, 0 when prior is 0
PercentChange(current, prior) ==
  IF prior = 0 THEN R(0) ELSE RMul(RDiv(R(current - prior), R(prior)), R(100))

\* C19 as stated: the growth of a category is the percentage change between
\* its expense total in the current calendar month and its total in the
\* immediately preceding calendar month (0 if the prior total is 0); expenses
\* dated in any other month do not change it.
C19_GrowthOverCalendarMonths ==
  view.rendered =>
    \A k \in 1..Len(view.categories) :
      view.categories[k].growth =
        PercentChange(
          AmountDated(OfCategory(view.expenses, view.categories[k].category), view.now),
          AmountDated(OfCategory(view.expenses, view.categories[k].category),
                      view.now - 1))

\* the positions of the months that have the maximum of the field
MaxPositions(months, field) ==
  {k \in 1..Len(months) : \A j \in 1..Len(months) : months[j][field] <= months[k][field]}

\* the peak reported for a field is the month at the given position
PeakIsAt(peak, months, field, k) ==
  peak.month = months[k].month /\ peak.value = months[k][field]

PeakOf(peaks, field) ==
  IF field = "income" THEN peaks.peakIncome
  ELSE IF field = "expenses" THEN peaks.peakExpense ELSE peaks.peakSavings

\* C20 (as the code decides it): when several active months share the maximum
\* income, expenses or savings, getPeakAnalysis reports as the peak the last
\* such month of the oldest-first scan of the monthly aggregates (the most
\* recent one), for all three peaks.
C20_PeakTieKeepsLast ==
  (view.rendered /\ view.yearly.monthsTracked > 0) =>
    \A field \in {"income", "expenses", "savings"} :
      \E k \in MaxPositions(SelectSeq(view.monthly, IsActive), field) :
        /\ PeakIsAt(PeakOf(view.peaks, field), SelectSeq(view.monthly, IsActive), field, k)
        /\ \A j \in MaxPositions(SelectSeq(view.monthly, IsActive), field) : j <= k

\* two active months share the maximum income
C20_Witness ==
  /\ view.rendered
  /\ Len(SelectSeq(view.monthly, IsActive)) = 2
  /\ view.monthly[11].income > 0
  /\ view.monthly[11].income = view.monthly[12].income
  /\ view.peaks.peakIncome.month = view.monthly[12].month

\* C20 as stated: on a tie the peak is the first such month encountered in the
\* left-to-right (oldest-first) scan, for all three peaks.
C20_PeakTieKeepsFirst ==
  (view.rendered /\ view.yearly.monthsTracked > 0) =>
    \A field \in {"income", "expenses", "savings"} :
      \E k \in MaxPositions(SelectSeq(view.monthly, IsActive), field) :
        /\ PeakIsAt(PeakOf(view.peaks, field), SelectSeq(view.monthly, IsActive), field, k)
        /\ \A j \in MaxPositions(SelectSeq(view.monthly, IsActive), field) : k <= j

\* the monthly saving generateComparison accumulates: monthlySavingForPurchase
\* || 0 of the details runSimulation passes to it
ComparisonSaving(result) ==
  ROr(IF result.purchaseDetails.mode = "emi"
      THEN ROr(R(result.financialProfile.extraSavingPerMonth),
               result.emiAnalysis.emiAmount)
      ELSE result.purchaseDetails.monthlySavingForPurchase,
      R(0))

\* month m is one at which m times the monthly saving has reached m times the
\* installment
SavingsOvertake(result, m) ==
  RGe(RMul(ComparisonSaving(result), R(m)),
      RMul(result.comparison.monthlyBurdenEMI, R(m)))

\* C21 as stated: the breakEvenMonth of the comparison is a month index
\* m >= 1 at which the cumulative savings contributions (m times the monthly
\* saving) have reached or overtaken the cumulative installments (m times
\* emiAmount), and no earlier month has that property.
C21_BreakEvenIsFirstOvertake ==
  sim.simulated =>
    LET b == sim.comparison.breakEvenMonth
    IN  /\ IsFinite(b)
        /\ b.d = 1
        /\ b.n >= 1
        /\ SavingsOvertake(sim, b.n)
        /\ \A k \in 1..(b.n - 1) : ~SavingsOvertake(sim, k)

\* the two tier tables of the affordability factor (insights.ts 547-551)
TierByBurden(b) ==
  IF RLt(b, R(20)) THEN 95 ELSE IF RLt(b, R(30)) THEN 75
  ELSE IF RLt(b, R(40)) THEN 55 ELSE IF RLt(b, R(60)) THEN 30 ELSE 10

TierByMonths(m) ==
  IF RLe(m, R(3)) THEN 95 ELSE IF RLe(m, R(6)) THEN 80
  ELSE IF RLe(m, R(12)) THEN 60 ELSE IF RLe(m, R(24)) THEN 35 ELSE 15

\* C22 as stated: in the purchase score of runSimulation the affordability
\* factor is tiered by the EMI burden when the mode is emi and by the months to
\* save when the mode is savings or save-extra.
C22_AffordabilityTierFollowsMode ==
  sim.simulated =>
    sim.purchaseScore.factors[1].score =
      R(IF sim.purchaseDetails.mode = "emi"
        THEN TierByBurden(sim.emiAnalysis.emiBurdenPercent)
        ELSE TierByMonths(sim.savingsAnalysis.monthsRequired))

\* the positions in the store of the loan with the given id
StoredAt(all, loanId) == {k \in 1..Len(all) : all[k].id = loanId}

\* C23 as stated: no update to the loan store is lost under interleaving.
\* When the verification of a payEmi call in flight returns verified, the store
\* the call leaves is the store as the calls completed meanwhile left it, with
\* this payment applied once to its loan (remainingAmount reduced by emiAmount,
\* completedEMIs one more): payments made meanwhile are kept, a loan created
\* meanwhile is still stored, a loan deleted meanwhile stays deleted.
C23_NoLostUpdate ==
  [][\A p \in Callers :
       PayEmiVerify(p, TRUE) =>
         IF StoredAt(loans, calls[p].loanId) = {}
         THEN loans' = loans
         ELSE \E k \in StoredAt(loans, calls[p].loanId) :
                loans' = [loans EXCEPT ![k] = PaidOnce(@, today)]]_vars

\* C24: a payEmi call that fails (loan not found, loan already paid or
\* completed, verification not verified) leaves the loan store unchanged and
\* appends no expense; an EMI expense is appended only by a call whose
\* verification returned verified, for the order that was verified, and each
\* successful payEmi appends exactly one expense, of amount emiAmount.
C24_FailedPaymentChangesNothing ==
  [][/\ \A p \in Callers, u \in Users, id \in LoanIds :
          (PayEmiStart(p, u, id) /\ outcome'.n = started') =>
             /\ outcome'.error \in {"Loan not found", "Loan is already fully paid",
                                    "Loan is completed."}
             /\ loans' = loans
             /\ expenses' = expenses
     /\ \A p \in Callers :
          PayEmiVerify(p, FALSE) =>
             /\ outcome'.n = calls[p].n
             /\ outcome'.error = "EMI payment failed."
             /\ calls'[p] = NoCall
             /\ loans' = loans
             /\ expenses' = expenses
     /\ \A p \in Callers :
          (calls'[p].pc = "expense" /\ calls[p].pc # "expense") =>
             /\ PayEmiVerify(p, TRUE)
             /\ expenses' = expenses
             /\ calls'[p].expense.razorpayOrderId = calls[p].order
             /\ \E k \in StoredAt(loans', calls[p].loanId) :
                   calls'[p].expense.amount = loans'[k].emiAmount
     /\ expenses' # expenses =>
          \E p \in Callers :
             /\ calls[p].pc = "expense"
             /\ expenses' = Append(expenses, calls[p].expense)
             /\ outcome' = Returned(calls[p].n, "payEmi", calls[p].loanId, "none")
             /\ calls'[p] = NoCall
     /\ (outcome' # outcome /\ outcome'.op = "payEmi" /\ outcome'.error = "none") =>
          Len(expenses') = Len(expenses) + 1]_vars

\* one payment of a loan succeeded and the verification of the next one
\* failed: one expense, of the installment, and the loan paid once
C24_Witness ==
  /\ outcome.op = "payEmi"
  /\ outcome.error = "EMI payment failed."
  /\ orders = 2
  /\ Len(expenses) = 1
  /\ \E k \in StoredAt(loans, outcome.arg) :
        /\ loans[k].completedEMIs = 1
        /\ loans[k].remainingAmount = loans[k].totalAmount - loans[k].emiAmount
        /\ loans[k].remainingAmount > 0
        /\ expenses[1].amount = loans[k].emiAmount

\* C25: for every loan created with totalAmount > 0 and emiAmount > 0, in every
\* state of every sequential sequence of create, payEmi, getAll and delete:
\* 0 <= remainingAmount <= totalAmount, remainingAmount never increases,
\* isActive is true exactly when loanStatus is Active, and a loan that is
\* Completed stays Completed and accepts no further payment (no step changes
\* it, and no payment of it is in flight).
C25_LoanInvariants ==
  [][\A k \in 1..Len(loans') :
       (loans'[k].totalAmount > 0 /\ loans'[k].emiAmount > 0) =>
          /\ 0 <= loans'[k].remainingAmount
          /\ loans'[k].remainingAmount <= loans'[k].totalAmount
          /\ loans'[k].isActive <=> (loans'[k].loanStatus = "Active")
          /\ \A j \in StoredAt(loans, loans'[k].id) :
                /\ loans'[k].remainingAmount <= loans[j].remainingAmount
                /\ loans[j].loanStatus = "Completed" => loans'[k] = loans[j]
          /\ \A p \in Callers :
                (calls'[p].pc \in {"order", "verify"}
                   /\ calls'[p].loanId = loans'[k].id) =>
                  loans'[k].loanStatus # "Completed"]_vars

\* a loan of a positive amount was paid off and its next payment was refused
C25_Witness ==
  /\ Quiet
  /\ outcome.op = "payEmi"
  /\ outcome.error = "Loan is already fully paid"
  /\ \E k \in StoredAt(loans, outcome.arg) :
        /\ loans[k].totalAmount > 0
        /\ loans[k].remainingAmount = 0
        /\ loans[k].loanStatus = "Completed"
        /\ ~loans[k].isActive
  /\ Len(expenses) = 1

\* the EMI expenses recorded for a loan: those of its user whose description
\* is the loan's name
EmiExpensesOf(loan) ==
  SelectSeq(expenses, LAMBDA e : /\ e.paymentType = "EMI"
                                 /\ e.userId = loan.userId
                                 /\ e.description = loan.loanName)

\* C26 as stated: for every loan, after any sequence of successful payEmi
\* calls, the sum of the amounts of the EMI expenses recorded for that loan
\* equals the amount repaid, totalAmount - remainingAmount.  The expenses are
\* those of the loan when there are as many of them as the loan has payments.
C26_ExpensesEqualRepaid ==
  Quiet =>
    \A k \in 1..Len(loans) :
      Len(EmiExpensesOf(loans[k])) = loans[k].completedEMIs =>
        SumAmount(EmiExpensesOf(loans[k]))
          = loans[k].totalAmount - loans[k].remainingAmount

\* C27 as stated: for every loan and every sequence of payEmi calls,
\* completedEMIs never exceeds totalEMIs, and the loan is Completed by the time
\* completedEMIs reaches totalEMIs.
C27_InstallmentsWithinTotal ==
  \A k \in 1..Len(loans) :
    /\ loans[k].completedEMIs <= loans[k].totalEMIs
    /\ loans[k].completedEMIs >= loans[k].totalEMIs =>
         loans[k].loanStatus = "Completed"

\* C28: after any sequence of saveSimulation and clearSimulationHistory calls
\* starting from an empty history, the stored history of a user holds at most
\* 20 results, all the user's own, most recently saved first; saving puts the
\* saved result at the head, keeps the others in their order and evicts only
\* the oldest one, when there were 20; and it leaves the history of every other
\* user as it was.
C28_HistoryMostRecentFirst ==
  [][/\ \A u \in Users :
          /\ Len(history'[u]) <= 20
          /\ \A i \in 1..Len(history'[u]) : history'[u][i].id[1] = u
          /\ \A i \in 1..(Len(history'[u]) - 1) :
                history'[u][i].id[2] > history'[u][i + 1].id[2]
     /\ \A u \in Users :
          saveSimulation(u) =>
             /\ history'[u][1] = NextResult(u)
             /\ Len(history'[u]) =
                  IF Len(history[u]) < 20 THEN Len(history[u]) + 1 ELSE 20
             /\ \A i \in 2..Len(history'[u]) : history'[u][i] = history[u][i - 1]
             /\ \A v \in Users \ {u} : history'[v] = history[v]]_vars

\* the first user saved 22 results, so the two oldest were evicted, and
\* another user has a history too
C28_Witness ==
  /\ Len(history["u1"]) = 20
  /\ history["u1"][1].id = <<"u1", 22>>
  /\ history["u1"][20].id = <<"u1", 3>>
  /\ history["u2"] # << >>

\* C29 as stated: for every record set with non-negative amounts and at least
\* 2 active months, every projected income and projected expenses value of the
\* threeMonthProjection of getPredictions, and nextMonthIncome and
\* nextMonthExpense, is non-negative.
C29_ProjectionsNonNegative ==
  (view.rendered /\ Len(SelectSeq(view.monthly, IsActive)) >= 2) =>
    /\ Len(view.predictions.threeMonthProjection) = 3
    /\ \A i \in 1..3 :
          /\ view.predictions.threeMonthProjection[i].income >= 0
          /\ view.predictions.threeMonthProjection[i].expenses >= 0
    /\ view.predictions.nextMonthIncome >= 0
    /\ view.predictions.nextMonthExpense >= 0

\* C30 as stated: in every runSimulation result the overall verdict insight
\* agrees with the feasibility label of the purchase score: the first insight
\* is the success verdict exactly when feasibility is safe, the warning verdict
\* exactly when it is moderate, and the danger verdict, together with the
\* delay-by-6-months tip, exactly when it is risky.
C30_VerdictAgreesWithFeasibility ==
  sim.simulated =>
    /\ (sim.insights.insights[1] = Ins("success", "verdict-comfortable"))
         <=> (sim.purchaseScore.feasibility = "safe")
    /\ (sim.insights.insights[1] = Ins("warning", "verdict-stretch"))
         <=> (sim.purchaseScore.feasibility = "moderate")
    /\ (/\ sim.insights.insights[1] = Ins("danger", "verdict-not-recommended")
        /\ HasInsight(sim.insights, "tip", "delay-6-months"))
         <=> (sim.purchaseScore.feasibility = "risky")

====
